---- MODULE Spec2Model ----
(***************************************************************************)
(* Two-layer tile grid (GridState), the road tools that write to it        *)
(* (drawRoad, connectRoads, placeRoad, placeAsset) and the road-network    *)
(* validation, modelled from the TypeScript sources.                       *)
(*                                                                         *)
(* A position is a pair <<x, y>>.  A cell is a record [assetId, layer];    *)
(* the empty cell (null in the source) is NoCell.  A sprite is a record    *)
(* [id, category, w, h, layer, type, connects]; connects is a sequence of  *)
(* directions, as in the source (an array).  "No sprite" (undefined in     *)
(* the source) is NoSprite.                                                *)
(***************************************************************************)
EXTENDS Integers, Sequences, FiniteSets, TLC

VARIABLES grid, tracker, roadBudget, last

vars == <<grid, tracker, roadBudget, last>>

-----------------------------------------------------------------------------
(* Bounds of the model *)

\* width and height of the small grids
SmallW == 3
SmallH == 3
\* width and height of the raw-grid (setTile/getTile/clearTile) model
RawW == 2
RawH == 2
\* at most this many non-empty cells in the raw-grid model
RawMaxCells == 2
\* road budget handed to createDrawRoadTool / createPlaceRoadTool
MaxRoadTiles == 3
\* side of the square grid of the two-segment repair scenario
RepairSide == 8
\* length of each straight segment of the two-segment repair scenario
SegmentLen == 3
\* width and height of the grid of the connectRoads model, and the most road
\* cells its starting grid holds
StartW == 3
StartH == 2
MaxStartRoads == 3
\* at most this many road cells in a starting grid for repeated connectRoads calls
MaxRepeatRoads == 3
\* at most this many tool calls in the mixed-tool model
MaxCalls == 2
\* at most this many ground tiles in a starting grid of the updateAdjacentRoad model
UpgradeMaxCells == 2

\* width and height of the grid of the generateManhattanPath model
PathW == 4
PathH == 3

\* findNearestTilesBetweenIslands is checked on islands of at most NearMaxLen
\* tiles taken from a NearW x NearH area.
NearW == 3
NearH == 2
NearMaxLen == 2

\* width, height and road budget of the model of one road tool called again and
\* again on a fresh grid, and the most calls made in it
BudgetW == 2
BudgetH == 2
BudgetMax == 2
BudgetCalls == 3

\* width, height and road budget of the model of accepted and rejected drawRoad
\* calls, and the most calls made in it
RouteW == 2
RouteH == 2
RouteBudget == 3
RouteCalls == 2

\* at most this many ground tiles in a starting grid of the road-island model
IslandMaxCells == 3

\* width and height of the grid of the fillGround model, and the most tiles a
\* starting grid of it holds
FillW == 2
FillH == 1
FillMaxCells == 2

\* number of entries of the catalogs of the findMatchingRoadSprite model
MatchLen == 2
\* width and height of the grid of the planner-tool models, and the most calls
\* made in them
PlanW == 2
PlanH == 2
PlanCalls == 2
\* width, height and road budget of the model of drawRoad alone
DrawW == 2
DrawH == 3
DrawBudget == 4

-----------------------------------------------------------------------------
(* Values *)

NoCell == [assetId |-> "", layer |-> ""]

NoSprite ==
  [id |-> "", category |-> "", w |-> 0, h |-> 0, layer |-> "", type |-> "", connects |-> <<>>]

Layers == {"ground", "object"}

\* roadConnections of buildLayoutSlots: the connectivity of the eight road
\* slots, in order (the hints are left out).
roadConnections ==
  << [connects |-> <<"east", "west">>, type |-> "path"],
     [connects |-> <<"north", "south">>, type |-> "path"],
     [connects |-> <<"north", "east">>, type |-> "corner"],
     [connects |-> <<"north", "west">>, type |-> "corner"],
     [connects |-> <<"south", "east">>, type |-> "corner"],
     [connects |-> <<"south", "west">>, type |-> "corner"],
     [connects |-> <<"north", "south", "east", "west">>, type |-> "intersection"],
     [connects |-> <<"south", "east", "west">>, type |-> "intersection"] >>

\* groundHints of buildLayoutSlots: the walkable flag of the eight ground slots.
groundHints == <<TRUE, TRUE, TRUE, TRUE, TRUE, TRUE, TRUE, FALSE>>

\* buildingHints of buildLayoutSlots: one entry for each of the four buildings.
buildingHints == <<"main", "secondary", "shop", "utility">>

\* walkablePropIndices of buildLayoutSlots.
walkablePropIndices == {11, 14, 22, 23}

\* buildLayoutSlots(): the 52 structural slots, none with an id: 8 roads
\* (row 0), 8 grounds (row 1), 4 buildings of 2x2 (rows 2-3), 32 props (rows
\* 4-7).  placement and connectivity are flattened into layer, walkable,
\* anchor, type and connects; the hint is left out.
buildLayoutSlots ==
  [col \in 1 .. Len(roadConnections) |->
     [col |-> col - 1, row |-> 0, w |-> 1, h |-> 1, category |-> "ground",
      layer |-> "ground", walkable |-> TRUE, anchor |-> "top_left",
      type |-> roadConnections[col].type, connects |-> roadConnections[col].connects]]
  \o
  [col \in 1 .. Len(groundHints) |->
     [col |-> col - 1, row |-> 1, w |-> 1, h |-> 1, category |-> "ground",
      layer |-> "ground", walkable |-> groundHints[col], anchor |-> "top_left",
      type |-> "none", connects |-> <<>>]]
  \o
  [i \in 1 .. Len(buildingHints) |->
     [col |-> (i - 1) * 2, row |-> 2, w |-> 2, h |-> 2, category |-> "building",
      layer |-> "object", walkable |-> FALSE, anchor |-> "bottom_center",
      type |-> "none", connects |-> <<>>]]
  \o
  [i \in 1 .. 32 |->
     [col |-> (i - 1) % 8, row |-> 4 + ((i - 1) \div 8), w |-> 1, h |-> 1,
      category |-> "prop", layer |-> "object",
      walkable |-> ((i - 1) \in walkablePropIndices), anchor |-> "bottom_center",
      type |-> "none", connects |-> <<>>]]

\* The fallback id of slot i (from 0) when the designer gave none: `sprite_${i}`.
FallbackIds ==
  <<
    "sprite_0", "sprite_1", "sprite_2", "sprite_3", "sprite_4", "sprite_5", "sprite_6",
    "sprite_7", "sprite_8", "sprite_9", "sprite_10", "sprite_11", "sprite_12",
    "sprite_13", "sprite_14", "sprite_15", "sprite_16", "sprite_17", "sprite_18",
    "sprite_19", "sprite_20", "sprite_21", "sprite_22", "sprite_23", "sprite_24",
    "sprite_25", "sprite_26", "sprite_27", "sprite_28", "sprite_29", "sprite_30",
    "sprite_31", "sprite_32", "sprite_33", "sprite_34", "sprite_35", "sprite_36",
    "sprite_37", "sprite_38", "sprite_39", "sprite_40", "sprite_41", "sprite_42",
    "sprite_43", "sprite_44", "sprite_45", "sprite_46", "sprite_47", "sprite_48",
    "sprite_49", "sprite_50", "sprite_51" >>

\* The ids the designer model gives the 52 slots (semantics[i].id): unique, as
\* the prompt asks; the road ids name the directions of their slot.
SemanticIds ==
  <<
    "road_ew", "road_ns", "road_ne", "road_nw", "road_se", "road_sw", "road_nsew",
    "road_sew", "ground_0", "ground_1", "ground_2", "ground_3", "ground_4", "ground_5",
    "ground_6", "ground_7", "building_0", "building_1", "building_2", "building_3",
    "prop_0", "prop_1", "prop_2", "prop_3", "prop_4", "prop_5", "prop_6", "prop_7",
    "prop_8", "prop_9", "prop_10", "prop_11", "prop_12", "prop_13", "prop_14",
    "prop_15", "prop_16", "prop_17", "prop_18", "prop_19", "prop_20", "prop_21",
    "prop_22", "prop_23", "prop_24", "prop_25", "prop_26", "prop_27", "prop_28",
    "prop_29", "prop_30", "prop_31" >>

\* generateSpritesheet: the semantics merged into the structural slots.  A
\* sprite keeps the id and, of its slot, category, w, h, placement.layer and
\* connectivity; col, row, description, walkable and anchor are read by none
\* of the operations modelled here.
MergeSemantics(slots, semanticIds) ==
  [i \in 1 .. Len(slots) |->
     [id |-> IF i <= Len(semanticIds) THEN semanticIds[i] ELSE FallbackIds[i],
      category |-> slots[i].category, w |-> slots[i].w, h |-> slots[i].h,
      layer |-> slots[i].layer, type |-> slots[i].type, connects |-> slots[i].connects]]

\* The sprites of the built-in spritesheet: all 52 slots with their ids.
BuiltInSprites == MergeSemantics(buildLayoutSlots, SemanticIds)

\* The sprite of a road slot with the given id, type and connects.
RoadSlot(id, type, connects) ==
  [id |-> id, category |-> "ground", w |-> 1, h |-> 1, layer |-> "ground",
   type |-> type, connects |-> connects]

\* The eight road sprites of the built-in spritesheet.
RoadSprites == SubSeq(BuiltInSprites, 1, Len(roadConnections))

\* A catalog with a ground road tile for each of the 15 non-empty direction
\* sets: the eight road sprites of the built-in spritesheet, the four caps and
\* the three other T-junctions.
FullCatalog ==
  RoadSprites \o
  << RoadSlot("road_n", "cap", <<"north">>),
     RoadSlot("road_s", "cap", <<"south">>),
     RoadSlot("road_e", "cap", <<"east">>),
     RoadSlot("road_w", "cap", <<"west">>),
     RoadSlot("road_nse", "intersection", <<"north", "south", "east">>),
     RoadSlot("road_nsw", "intersection", <<"north", "south", "west">>),
     RoadSlot("road_new", "intersection", <<"north", "east", "west">>) >>

\* The sprite of the first ground slot (row 1).
groundSlot == BuiltInSprites[Len(roadConnections) + 1]

\* The sprite of the first building slot (rows 2-3), 2x2.
buildingSlot == BuiltInSprites[Len(roadConnections) + Len(groundHints) + 1]

\* The sprite of the first prop slot (rows 4-7).
propSlot == BuiltInSprites[Len(roadConnections) + Len(groundHints) + Len(buildingHints) + 1]

\* What the tools read of a sprite besides its id.
KindOf(sprite) == [sprite EXCEPT !.id = ""]

\* The catalog of the models that take the built-in spritesheet: its first
\* sprite of each kind, in order (the eight road sprites, then one ground, one
\* building and one prop sprite).  The 41 sprites left out differ from one of
\* these in the id only.
LayoutCatalog ==
  SelectSeq(BuiltInSprites,
            LAMBDA s : \A j \in 1 .. Len(BuiltInSprites) :
                         (KindOf(BuiltInSprites[j]) = KindOf(s) /\ BuiltInSprites[j].id # s.id)
                           => \E k \in 1 .. j - 1 : BuiltInSprites[k] = s)

\* A small catalog for the raw-grid model: one 1x1 ground road tile, one 2x2 building.
RawCatalog == <<RoadSprites[1], buildingSlot>>

\* An id that no catalog holds.
MissingId == "missing"

-----------------------------------------------------------------------------
(* GridState *)

Positions(w, h) == (0 .. w - 1) \X (0 .. h - 1)

\* new GridState(width, height, metadata): both layers all null.
GridState(width, height, metadata) ==
  [width |-> width, height |-> height, metadata |-> metadata,
   ground |-> [p \in Positions(width, height) |-> NoCell],
   objects |-> [p \in Positions(width, height) |-> NoCell]]

RECURSIVE FindSprite(_, _, _)
FindSprite(sprites, id, i) ==
  IF i > Len(sprites) THEN NoSprite
  ELSE IF sprites[i].id = id THEN sprites[i]
  ELSE FindSprite(sprites, id, i + 1)

\* metadata.sprites.find(s => s.id === id)
getSprite(g, id) == FindSprite(g.metadata, id, 1)

InBounds(g, x, y) == ~(x < 0 \/ x >= g.width \/ y < 0 \/ y >= g.height)

\* A variant of setTile that writes the cell before it validates the sprite.
setTileWriteFirst(g, x, y, assetId, layer) ==
  LET written ==
        IF ~InBounds(g, x, y) THEN g
        ELSE IF layer = "ground"
          THEN [g EXCEPT !.ground[<<x, y>>] = [assetId |-> assetId, layer |-> layer]]
          ELSE [g EXCEPT !.objects[<<x, y>>] = [assetId |-> assetId, layer |-> layer]]
  IN IF getSprite(g, assetId) = NoSprite THEN [grid |-> written, error |-> "UnknownSprite"]
     ELSE IF ~InBounds(g, x, y) THEN [grid |-> written, error |-> "OutOfBounds"]
     ELSE [grid |-> written, error |-> "none"]

\* A variant of setTile that marks the whole w x h footprint of the sprite.
setTileFootprint(g, x, y, assetId, layer) ==
  LET s == getSprite(g, assetId)
      cell == [assetId |-> assetId, layer |-> layer]
      covered == {p \in Positions(g.width, g.height) :
                    /\ p[1] >= x /\ p[1] < x + s.w
                    /\ p[2] >= y /\ p[2] < y + s.h}
  IN IF s = NoSprite THEN [grid |-> g, error |-> "UnknownSprite"]
     ELSE IF ~InBounds(g, x, y) THEN [grid |-> g, error |-> "OutOfBounds"]
     ELSE IF layer = "ground"
       THEN [grid |-> [g EXCEPT !.ground = [p \in DOMAIN g.ground |->
                                  IF p \in covered THEN cell ELSE g.ground[p]]],
             error |-> "none"]
       ELSE [grid |-> [g EXCEPT !.objects = [p \in DOMAIN g.objects |->
                                  IF p \in covered THEN cell ELSE g.objects[p]]],
             error |-> "none"]

\* A variant of setTile that stores the cell in the layer the sprite names
\* rather than in the layer of the argument.
setTileSpriteLayer(g, x, y, assetId, layer) ==
  IF getSprite(g, assetId) = NoSprite THEN [grid |-> g, error |-> "UnknownSprite"]
  ELSE IF ~InBounds(g, x, y) THEN [grid |-> g, error |-> "OutOfBounds"]
  ELSE IF getSprite(g, assetId).layer = "ground"
    THEN [grid |-> [g EXCEPT !.ground[<<x, y>>] = [assetId |-> assetId, layer |-> layer]],
          error |-> "none"]
    ELSE [grid |-> [g EXCEPT !.objects[<<x, y>>] = [assetId |-> assetId, layer |-> layer]],
          error |-> "none"]

\* setTile: throws "Unknown sprite" (getSpriteOrThrow) first, then "Position out
\* of bounds", else writes { assetId, layer } to the anchor cell of the layer.
\* The thrown error is returned as the error field; "none" when it returns normally.
setTile(g, x, y, assetId, layer) ==
  IF getSprite(g, assetId) = NoSprite THEN [grid |-> g, error |-> "UnknownSprite"]
  ELSE IF ~InBounds(g, x, y) THEN [grid |-> g, error |-> "OutOfBounds"]
  ELSE IF layer = "ground"
    THEN [grid |-> [g EXCEPT !.ground[<<x, y>>] = [assetId |-> assetId, layer |-> layer]],
          error |-> "none"]
    ELSE [grid |-> [g EXCEPT !.objects[<<x, y>>] = [assetId |-> assetId, layer |-> layer]],
          error |-> "none"]

\* getTile: null outside the grid, else the cell of the layer.
getTile(g, x, y, layer) ==
  IF ~InBounds(g, x, y) THEN NoCell
  ELSE IF layer = "ground" THEN g.ground[<<x, y>>] ELSE g.objects[<<x, y>>]

\* A variant of clearTile that empties the cell of both layers.
clearTileBothLayers(g, x, y, layer) ==
  IF ~InBounds(g, x, y) THEN g
  ELSE [g EXCEPT !.ground[<<x, y>>] = NoCell, !.objects[<<x, y>>] = NoCell]

\* clearTile: no-op outside the grid, else the cell becomes null.
clearTile(g, x, y, layer) ==
  IF ~InBounds(g, x, y) THEN g
  ELSE IF layer = "ground" THEN [g EXCEPT !.ground[<<x, y>>] = NoCell]
  ELSE [g EXCEPT !.objects[<<x, y>>] = NoCell]

-----------------------------------------------------------------------------
(* Helpers shared by draw-road.ts and connect-roads.ts (the two files hold      *)
(* textually equal copies of them)                                              *)

\* Object.entries(DIRECTION_OFFSETS): the iteration order of the directions.
DIRECTION_ORDER == <<"north", "south", "east", "west">>

DIRECTION_OFFSETS(dir) ==
  CASE dir = "north" -> [dx |-> 0, dy |-> -1]
    [] dir = "south" -> [dx |-> 0, dy |-> 1]
    [] dir = "east" -> [dx |-> 1, dy |-> 0]
    [] dir = "west" -> [dx |-> -1, dy |-> 0]

OPPOSITE_DIRECTION(dir) ==
  CASE dir = "north" -> "south"
    [] dir = "south" -> "north"
    [] dir = "east" -> "west"
    [] dir = "west" -> "east"

\* Array.prototype.includes
Includes(seq, e) == \E i \in 1 .. Len(seq) : seq[i] = e

\* The members of a sequence.
Range(seq) == {seq[i] : i \in 1 .. Len(seq)}

\* [...new Set(seq)]: the first occurrence of each element, in order.
RECURSIVE Unique(_)
Unique(seq) ==
  IF seq = <<>> THEN <<>>
  ELSE LET init == Unique(SubSeq(seq, 1, Len(seq) - 1))
           e == seq[Len(seq)]
       IN IF Includes(init, e) THEN init ELSE Append(init, e)

\* The first loop of generateManhattanPath: along row y from x up to, not including, toX.
RECURSIVE HorizontalLeg(_, _, _)
HorizontalLeg(x, y, toX) ==
  IF x = toX THEN <<>>
  ELSE <<<<x, y>>>> \o HorizontalLeg(IF x < toX THEN x + 1 ELSE x - 1, y, toX)

\* The second loop of generateManhattanPath: along column x from y up to, not including, toY.
RECURSIVE VerticalLeg(_, _, _)
VerticalLeg(x, y, toY) ==
  IF y = toY THEN <<>>
  ELSE <<<<x, y>>>> \o VerticalLeg(x, IF y < toY THEN y + 1 ELSE y - 1, toY)

\* A variant of generateManhattanPath that moves vertically first, then horizontally.
generateManhattanPathVerticalFirst(fromX, fromY, toX, toY) ==
  VerticalLeg(fromX, fromY, toY) \o HorizontalLeg(fromX, toY, toX) \o <<<<toX, toY>>>>

generateManhattanPath(fromX, fromY, toX, toY) ==
  HorizontalLeg(fromX, fromY, toX) \o VerticalLeg(toX, fromY, toY) \o <<<<toX, toY>>>>

\* The direction from a point to an adjacent point; "" for null.
getDirectionBetween(fromX, fromY, toX, toY) ==
  LET dx == toX - fromX
      dy == toY - fromY
  IN IF dx = 1 /\ dy = 0 THEN "east"
     ELSE IF dx = -1 /\ dy = 0 THEN "west"
     ELSE IF dx = 0 /\ dy = 1 THEN "south"
     ELSE IF dx = 0 /\ dy = -1 THEN "north"
     ELSE ""

RoadTypes == {"path", "corner", "intersection", "cap"}

isRoadSprite(sprite) == sprite # NoSprite /\ sprite.type \in RoadTypes

\* GridState.isRoadAt
isRoadAt(g, x, y) ==
  LET tile == getTile(g, x, y, "ground")
  IN tile # NoCell /\ getSprite(g, tile.assetId) # NoSprite
     /\ getSprite(g, tile.assetId).type \in RoadTypes

\* The decimal digit n % 10 as a character.
Digit(n) == <<"0", "1", "2", "3", "4", "5", "6", "7", "8", "9">>[(n % 10) + 1]

\* GridState.toASCII: the two texts, each a sequence of lines (the code joins
\* them with '\n'); a line is a sequence of characters, the legend line is
\* kept as one string.
toASCII(g) ==
  LET header == <<" ", " ">> \o [i \in 1 .. g.width |-> Digit(i - 1)]
      groundChar(x, y) ==
        IF getTile(g, x, y, "ground") # NoCell
        THEN IF getSprite(g, getTile(g, x, y, "ground").assetId) # NoSprite /\ isRoadAt(g, x, y)
             THEN "R" ELSE "G"
        ELSE "."
      objectChar(x, y) ==
        IF getTile(g, x, y, "object") # NoCell
        THEN LET category == getSprite(g, getTile(g, x, y, "object").assetId).category
             IN IF category = "building" THEN "B"
                ELSE IF category = "prop" THEN "P"
                ELSE IF category = "marker" THEN "M"
                ELSE "?"
        ELSE "."
      groundRow(y) == <<Digit(y), " ">> \o [i \in 1 .. g.width |-> groundChar(i - 1, y)]
      objectRow(y) == <<Digit(y), " ">> \o [i \in 1 .. g.width |-> objectChar(i - 1, y)]
  IN [ground |-> <<header>> \o [j \in 1 .. g.height |-> groundRow(j - 1)]
                 \o << <<>>, <<"Legend: R=road, G=ground, .=empty">> >>,
      objects |-> <<header>> \o [j \in 1 .. g.height |-> objectRow(j - 1)]
                  \o << <<>>, <<"Legend: B=building, P=prop, M=marker, .=empty">> >>]

\* createViewMapTool.execute: the text of the layer asked for, or both.
viewMap(g, layer) ==
  IF layer = "ground" THEN [ground |-> toASCII(g).ground]
  ELSE IF layer = "objects" THEN [objects |-> toASCII(g).objects]
  ELSE toASCII(g)

\* Does the neighbour of (x, y) in direction dir hold a road that connects back?
NeighborConnectsBack(g, x, y, dir) ==
  LET nx == x + DIRECTION_OFFSETS(dir).dx
      ny == y + DIRECTION_OFFSETS(dir).dy
      tile == getTile(g, nx, ny, "ground")
      sprite == getSprite(g, tile.assetId)
  IN /\ InBounds(g, nx, ny)
     /\ tile # NoCell
     /\ isRoadSprite(sprite)
     /\ Includes(sprite.connects, OPPOSITE_DIRECTION(dir))

\* A variant of getAdjacentRoadConnections that takes every neighbouring road,
\* whether or not it connects back.
getAdjacentRoadConnectionsAnyRoad(g, x, y) ==
  SelectSeq(DIRECTION_ORDER,
            LAMBDA dir : isRoadAt(g, x + DIRECTION_OFFSETS(dir).dx, y + DIRECTION_OFFSETS(dir).dy))

getAdjacentRoadConnections(g, x, y) ==
  SelectSeq(DIRECTION_ORDER, LAMBDA dir : NeighborConnectsBack(g, x, y, dir))

\* path is 1-indexed here: index 1 is the source's index 0.
getPathConnections(path, index) ==
  LET current == path[index]
      toPrev == IF index > 1
                  THEN getDirectionBetween(current[1], current[2],
                                           path[index - 1][1], path[index - 1][2])
                  ELSE ""
      toNext == IF index < Len(path)
                  THEN getDirectionBetween(current[1], current[2],
                                           path[index + 1][1], path[index + 1][2])
                  ELSE ""
  IN (IF toPrev # "" THEN <<toPrev>> ELSE <<>>) \o (IF toNext # "" THEN <<toNext>> ELSE <<>>)

\* A variant of getSpritesWithConnections without the length comparison: every
\* sprite whose connects include the directions.
getSpritesWithConnectionsSuperset(g, directions) ==
  SelectSeq(g.metadata, LAMBDA s :
    \A i \in 1 .. Len(directions) : Includes(s.connects, directions[i]))

\* GridState.getSpritesWithConnections: same length and every direction included.
getSpritesWithConnections(g, directions) ==
  SelectSeq(g.metadata, LAMBDA s :
    /\ Len(s.connects) = Len(directions)
    /\ \A i \in 1 .. Len(directions) : Includes(s.connects, directions[i]))

findMatchingRoadSprite(g, connections) ==
  LET matches == getSpritesWithConnections(g, connections)
      roadMatches == SelectSeq(matches, LAMBDA s : s.category = "ground" /\ isRoadSprite(s))
  IN IF Len(roadMatches) > 0 THEN roadMatches[1] ELSE NoSprite

\* A variant of updateAdjacentRoad without the check that the tile already has
\* the connection.
updateAdjacentRoadUnchecked(g, x, y, newConnection) ==
  LET tile == getTile(g, x, y, "ground")
      sprite == getSprite(g, tile.assetId)
      updatedConnections == Append(sprite.connects, newConnection)
      newSprite == findMatchingRoadSprite(g, updatedConnections)
  IN IF tile = NoCell THEN [grid |-> g, updated |-> FALSE]
     ELSE IF ~isRoadSprite(sprite) THEN [grid |-> g, updated |-> FALSE]
     ELSE IF newSprite # NoSprite /\ newSprite.id # tile.assetId
       THEN [grid |-> setTile(g, x, y, newSprite.id, "ground").grid, updated |-> TRUE]
       ELSE [grid |-> g, updated |-> FALSE]

\* updateAdjacentRoad: [grid, updated]; updated is the boolean the source returns.
\* Its setTile call cannot throw: newSprite comes from the catalog and (x, y)
\* holds a tile, so it is inside the grid.
updateAdjacentRoad(g, x, y, newConnection) ==
  LET tile == getTile(g, x, y, "ground")
      sprite == getSprite(g, tile.assetId)
      updatedConnections == Append(sprite.connects, newConnection)
      newSprite == findMatchingRoadSprite(g, updatedConnections)
  IN IF tile = NoCell THEN [grid |-> g, updated |-> FALSE]
     ELSE IF ~isRoadSprite(sprite) THEN [grid |-> g, updated |-> FALSE]
     ELSE IF Includes(sprite.connects, newConnection) THEN [grid |-> g, updated |-> FALSE]
     ELSE IF newSprite # NoSprite /\ newSprite.id # tile.assetId
       THEN [grid |-> setTile(g, x, y, newSprite.id, "ground").grid, updated |-> TRUE]
       ELSE [grid |-> g, updated |-> FALSE]

\* The loop of updateAdjacentRoads from index i on: [grid, updated] with the count.
RECURSIVE UpdateAdjacentFrom(_, _, _, _, _, _)
UpdateAdjacentFrom(g, x, y, placedConnections, i, updated) ==
  IF i > Len(placedConnections) THEN [grid |-> g, updated |-> updated]
  ELSE LET dir == placedConnections[i]
           nx == x + DIRECTION_OFFSETS(dir).dx
           ny == y + DIRECTION_OFFSETS(dir).dy
           u == updateAdjacentRoad(g, nx, ny, OPPOSITE_DIRECTION(dir))
       IN IF ~InBounds(g, nx, ny)
            THEN UpdateAdjacentFrom(g, x, y, placedConnections, i + 1, updated)
            ELSE UpdateAdjacentFrom(u.grid, x, y, placedConnections, i + 1,
                                    IF u.updated THEN updated + 1 ELSE updated)

\* A variant of updateAdjacentRoads that leaves the neighbouring roads as they are.
updateAdjacentRoadsNone(g, x, y, placedConnections) == [grid |-> g, updated |-> 0]

updateAdjacentRoads(g, x, y, placedConnections) ==
  UpdateAdjacentFrom(g, x, y, placedConnections, 1, 0)

-----------------------------------------------------------------------------
(* Road network validation (grid-state.ts) *)

\* The positions of the grid in the scan order of getRoadNetwork: y outer, x inner.
ScanOrder(g) ==
  [k \in 1 .. g.width * g.height |-> <<(k - 1) % g.width, (k - 1) \div g.width>>]

\* getRoadNetwork: the road positions, in insertion (scan) order.
getRoadNetwork(g) == SelectSeq(ScanOrder(g), LAMBDA p : isRoadAt(g, p[1], p[2]))

\* The adjacency offsets of getRoadIslands, in its order: north, south, east, west.
IslandOffsets == <<<<0, -1>>, <<0, 1>>, <<1, 0>>, <<-1, 0>>>>

\* A variant of the flood fill that also follows the four diagonal offsets.
RECURSIVE FloodFillDiagonal(_, _, _, _)
FloodFillDiagonal(queue, visited, island, roadTiles) ==
  IF queue = <<>> THEN [island |-> island, visited |-> visited]
  ELSE LET current == Head(queue)
           visited2 == visited \cup {current}
           offsets == IslandOffsets \o <<<<1, 1>>, <<1, -1>>, <<-1, 1>>, <<-1, -1>>>>
           neighbors == SelectSeq(
             [k \in 1 .. 8 |-> <<current[1] + offsets[k][1], current[2] + offsets[k][2]>>],
             LAMBDA n : n \in roadTiles /\ n \notin visited2)
       IN IF current \in visited
            THEN FloodFillDiagonal(Tail(queue), visited, island, roadTiles)
            ELSE FloodFillDiagonal(Tail(queue) \o neighbors, visited2,
                                   Append(island, current), roadTiles)

\* The while loop of getRoadIslands: [island, visited] when the queue is empty.
RECURSIVE FloodFill(_, _, _, _)
FloodFill(queue, visited, island, roadTiles) ==
  IF queue = <<>> THEN [island |-> island, visited |-> visited]
  ELSE LET current == Head(queue)
           visited2 == visited \cup {current}
           neighbors == SelectSeq(
             [k \in 1 .. 4 |-> <<current[1] + IslandOffsets[k][1],
                                 current[2] + IslandOffsets[k][2]>>],
             LAMBDA n : n \in roadTiles /\ n \notin visited2)
       IN IF current \in visited
            THEN FloodFill(Tail(queue), visited, island, roadTiles)
            ELSE FloodFill(Tail(queue) \o neighbors, visited2,
                           Append(island, current), roadTiles)

Min(S) == CHOOSE m \in S : \A n \in S : m <= n
Max(S) == CHOOSE m \in S : \A n \in S : m >= n

IslandOf(tiles) ==
  [tiles |-> tiles,
   bounds |-> [minX |-> Min({tiles[i][1] : i \in 1 .. Len(tiles)}),
               maxX |-> Max({tiles[i][1] : i \in 1 .. Len(tiles)}),
               minY |-> Min({tiles[i][2] : i \in 1 .. Len(tiles)}),
               maxY |-> Max({tiles[i][2] : i \in 1 .. Len(tiles)})]]

\* A variant of the outer loop of getRoadIslands that starts every flood fill
\* with an empty visited set and from every road tile.
RECURSIVE IslandsFromFreshVisited(_, _, _, _, _)
IslandsFromFreshVisited(order, roadTiles, i, visited, islands) ==
  IF i > Len(order) THEN islands
  ELSE IslandsFromFreshVisited(order, roadTiles, i + 1, visited,
         Append(islands, IslandOf(FloodFill(<<order[i]>>, {}, <<>>, roadTiles).island)))

\* The outer loop of getRoadIslands over the road tiles, from index i on.
RECURSIVE IslandsFrom(_, _, _, _, _)
IslandsFrom(order, roadTiles, i, visited, islands) ==
  IF i > Len(order) THEN islands
  ELSE IF order[i] \in visited THEN IslandsFrom(order, roadTiles, i + 1, visited, islands)
  ELSE LET f == FloodFill(<<order[i]>>, visited, <<>>, roadTiles)
       IN IslandsFrom(order, roadTiles, i + 1, f.visited,
                      IF Len(f.island) > 0 THEN Append(islands, IslandOf(f.island))
                      ELSE islands)

getRoadIslands(g) ==
  LET order == getRoadNetwork(g)
  IN IslandsFrom(order, {order[i] : i \in 1 .. Len(order)}, 1, {}, <<>>)

RECURSIVE SumTiles(_, _)
SumTiles(islands, i) ==
  IF i > Len(islands) THEN 0 ELSE Len(islands[i].tiles) + SumTiles(islands, i + 1)

\* A variant of validateRoadConnectivity that calls a grid connected only when
\* it has exactly one island.
validateRoadConnectivityOneIsland(g) ==
  LET islands == getRoadIslands(g)
  IN [connected |-> Len(islands) = 1,
      totalRoadTiles |-> SumTiles(islands, 1),
      islandCount |-> Len(islands),
      islands |-> islands]

validateRoadConnectivity(g) ==
  LET islands == getRoadIslands(g)
  IN [connected |-> Len(islands) <= 1,
      totalRoadTiles |-> SumTiles(islands, 1),
      islandCount |-> Len(islands),
      islands |-> islands]

-----------------------------------------------------------------------------
(* drawRoad (draw-road.ts) *)

\* The tracker createDrawRoadTool starts with.
NewTracker(maxRoadTiles) == [tilesPlaced |-> 0, maxTiles |-> maxRoadTiles, roadTiles |-> {}]

isPointOnOrAdjacentToRoad(g, x, y, roadTiles) ==
  \/ <<x, y>> \in roadTiles
  \/ \E k \in 1 .. Len(DIRECTION_ORDER) :
       <<x + DIRECTION_OFFSETS(DIRECTION_ORDER[k]).dx,
         y + DIRECTION_OFFSETS(DIRECTION_ORDER[k]).dy>> \in roadTiles

\* allConnections of route point i on grid g: the path connections and the
\* adjacent-road connections, without repeats; east and west when there are none.
AllConnections(g, path, i) ==
  LET u == Unique(getPathConnections(path, i)
                  \o getAdjacentRoadConnections(g, path[i][1], path[i][2]))
  IN IF Len(u) = 0 THEN <<"east", "west">> ELSE u

\* The try block of the placing loop once setTile has answered: a throw is
\* caught (failed), else the adjacent roads are updated.
\* The answer is [grid, failed, updated].
WriteAfterSet(g, point, allConnections, set) ==
  IF set.error # "none" THEN [grid |-> g, failed |-> TRUE, updated |-> 0]
  ELSE [grid |-> updateAdjacentRoads(set.grid, point[1], point[2], allConnections).grid,
        failed |-> FALSE,
        updated |-> updateAdjacentRoads(set.grid, point[1], point[2], allConnections).updated]

\* The placing loop from "Find matching sprite" on: no sprite is an error entry
\* (failed), else the tile is set and the adjacent roads are updated.
WriteSprite(g, point, allConnections, sprite) ==
  IF sprite = NoSprite THEN [grid |-> g, failed |-> TRUE, updated |-> 0]
  ELSE WriteAfterSet(g, point, allConnections,
                     setTile(g, point[1], point[2], sprite.id, "ground"))

WriteConnections(g, point, allConnections) ==
  WriteSprite(g, point, allConnections, findMatchingRoadSprite(g, allConnections))

\* Resolve and write route point i on grid g: [grid, failed, updated].
WriteRoutePoint(g, path, i) == WriteConnections(g, path[i], AllConnections(g, path, i))

\* The loop state of drawRoad after route point `point` was handled with answer w.
\* st is [grid, roadTiles, tilesPlaced, tilesUpdated, errors]; an error entry is
\* the position of the cell it is about.
DrawRoadApply(st, point, w) ==
  IF w.failed THEN [st EXCEPT !.errors = Append(@, point)]
  ELSE [grid |-> w.grid,
        roadTiles |-> st.roadTiles \cup {point},
        tilesPlaced |-> st.tilesPlaced + 1,
        tilesUpdated |-> st.tilesUpdated + w.updated,
        errors |-> st.errors]

\* One iteration of the placing loop of drawRoad.
DrawRoadStep(st, path, i) == DrawRoadApply(st, path[i], WriteRoutePoint(st.grid, path, i))

\* A variant of the placing loop that stops at the first route point without a sprite.
RECURSIVE DrawRoadLoopAbort(_, _, _)
DrawRoadLoopAbort(st, path, i) ==
  IF i > Len(path) \/ Len(st.errors) > 0 THEN st
  ELSE DrawRoadLoopAbort(DrawRoadStep(st, path, i), path, i + 1)

RECURSIVE DrawRoadLoop(_, _, _)
DrawRoadLoop(st, path, i) ==
  IF i > Len(path) THEN st ELSE DrawRoadLoop(DrawRoadStep(st, path, i), path, i + 1)

NoResult ==
  [success |-> FALSE, error |-> "", tilesPlaced |-> 0, tilesUpdated |-> 0, errors |-> <<>>,
   alreadyConnected |-> FALSE, previousIslandCount |-> 0, finalIslandCount |-> 0,
   tilesSkipped |-> 0, results |-> <<>>]

\* The end of an accepted drawRoad call: the budget is updated and the result built.
DrawRoadAccepted(tr, st) ==
  [grid |-> st.grid,
   tracker |-> [tr EXCEPT !.tilesPlaced = @ + st.tilesPlaced, !.roadTiles = st.roadTiles],
   result |-> [NoResult EXCEPT !.success = (Len(st.errors) = 0),
                               !.tilesPlaced = st.tilesPlaced,
                               !.tilesUpdated = st.tilesUpdated,
                               !.errors = st.errors]]

\* The connection gate of drawRoad: true when the call is rejected as disconnected.
ConnectionGateRejects(g, tr, fromX, fromY, toX, toY) ==
  /\ tr.tilesPlaced > 0
  /\ ~isPointOnOrAdjacentToRoad(g, fromX, fromY, tr.roadTiles)
  /\ ~isPointOnOrAdjacentToRoad(g, toX, toY, tr.roadTiles)

\* A variant of DrawRoadPath without the budget check.
DrawRoadPathUnchecked(g, tr, path) ==
  DrawRoadAccepted(tr, DrawRoadLoop([grid |-> g, roadTiles |-> tr.roadTiles,
                                     tilesPlaced |-> 0, tilesUpdated |-> 0,
                                     errors |-> <<>>], path, 1))

\* A variant of DrawRoadPath that runs the placing loop before the budget check.
DrawRoadPathWritesFirst(g, tr, path) ==
  IF Len(path) > tr.maxTiles - tr.tilesPlaced
    THEN [grid |-> DrawRoadLoop([grid |-> g, roadTiles |-> tr.roadTiles,
                                 tilesPlaced |-> 0, tilesUpdated |-> 0,
                                 errors |-> <<>>], path, 1).grid,
          tracker |-> tr, result |-> [NoResult EXCEPT !.error = "Budget"]]
    ELSE DrawRoadAccepted(tr, DrawRoadLoop([grid |-> g, roadTiles |-> tr.roadTiles,
                                            tilesPlaced |-> 0, tilesUpdated |-> 0,
                                            errors |-> <<>>], path, 1))

\* drawRoad from the generated path on: the budget check and the placing loop.
DrawRoadPath(g, tr, path) ==
  IF Len(path) > tr.maxTiles - tr.tilesPlaced
    THEN [grid |-> g, tracker |-> tr, result |-> [NoResult EXCEPT !.error = "Budget"]]
    ELSE DrawRoadAccepted(tr, DrawRoadLoop([grid |-> g, roadTiles |-> tr.roadTiles,
                                            tilesPlaced |-> 0, tilesUpdated |-> 0,
                                            errors |-> <<>>], path, 1))

\* execute of createDrawRoadTool: [grid, tracker, result].
drawRoad(g, tr, fromX, fromY, toX, toY) ==
  IF ~InBounds(g, fromX, fromY) \/ ~InBounds(g, toX, toY)
    THEN [grid |-> g, tracker |-> tr, result |-> [NoResult EXCEPT !.error = "OutOfBounds"]]
  ELSE IF ConnectionGateRejects(g, tr, fromX, fromY, toX, toY)
    THEN [grid |-> g, tracker |-> tr, result |-> [NoResult EXCEPT !.error = "Disconnected"]]
  ELSE DrawRoadPath(g, tr, generateManhattanPath(fromX, fromY, toX, toY))

-----------------------------------------------------------------------------
(* connectRoads (connect-roads.ts) *)

Abs(n) == IF n < 0 THEN -n ELSE n

\* A variant of NearerOf that also takes a pair at the same distance as the best.
NearerOfLast(best, t1, t2, distance) ==
  IF best.distance < 0 \/ distance <= best.distance
    THEN [from |-> t1, to |-> t2, distance |-> distance]
    ELSE best

\* The pair the loops of findNearestTilesBetweenIslands keep after looking at
\* t1 and t2: the new pair when there is no best yet or it is strictly nearer.
NearerOf(best, t1, t2, distance) ==
  IF best.distance < 0 \/ distance < best.distance
    THEN [from |-> t1, to |-> t2, distance |-> distance]
    ELSE best

\* The two nested loops of findNearestTilesBetweenIslands, flattened: pair k is
\* (island1[(k-1) div m + 1], island2[(k-1) mod m + 1]), m the length of island2.
RECURSIVE NearestFrom(_, _, _, _)
NearestFrom(island1, island2, k, best) ==
  IF k > Len(island1) * Len(island2) THEN best
  ELSE LET t1 == island1[((k - 1) \div Len(island2)) + 1]
           t2 == island2[((k - 1) % Len(island2)) + 1]
       IN NearestFrom(island1, island2, k + 1,
                      NearerOf(best, t1, t2, Abs(t1[1] - t2[1]) + Abs(t1[2] - t2[2])))

\* best starts as null, written here as a record with distance -1.
findNearestTilesBetweenIslands(island1, island2) ==
  NearestFrom(island1, island2, 1, [from |-> <<0, 0>>, to |-> <<0, 0>>, distance |-> -1])

\* The loop over the path connections of a route point that is already a road:
\* the neighbour in each path direction is upgraded (no bounds check; getTile
\* answers null outside the grid).
RECURSIVE UpdateAlongPath(_, _, _, _, _, _)
UpdateAlongPath(g, x, y, pathConnections, i, updated) ==
  IF i > Len(pathConnections) THEN [grid |-> g, updated |-> updated]
  ELSE LET dir == pathConnections[i]
           u == updateAdjacentRoad(g, x + DIRECTION_OFFSETS(dir).dx,
                                   y + DIRECTION_OFFSETS(dir).dy, OPPOSITE_DIRECTION(dir))
       IN UpdateAlongPath(u.grid, x, y, pathConnections, i + 1,
                          IF u.updated THEN updated + 1 ELSE updated)

\* The loop state of drawConnectingRoad after a route point that was no road
\* was handled with answer w.  st is [grid, tilesPlaced, tilesUpdated, errors].
ConnectApply(st, point, w) ==
  IF w.failed THEN [st EXCEPT !.errors = Append(@, point)]
  ELSE [grid |-> w.grid, tilesPlaced |-> st.tilesPlaced + 1,
        tilesUpdated |-> st.tilesUpdated + w.updated, errors |-> st.errors]

\* The loop state after a route point that is already a road was skipped.
ConnectSkip(st, skip) ==
  [st EXCEPT !.grid = skip.grid, !.tilesUpdated = @ + skip.updated]

\* A variant of the connecting step that never skips a cell that is already a road.
ConnectStepOverwrite(st, path, i) ==
  ConnectApply(st, path[i], WriteRoutePoint(st.grid, path, i))

\* One iteration of the loop of drawConnectingRoad.
ConnectStep(st, path, i) ==
  IF isRoadAt(st.grid, path[i][1], path[i][2])
    THEN ConnectSkip(st, UpdateAlongPath(st.grid, path[i][1], path[i][2],
                                         getPathConnections(path, i), 1, 0))
    ELSE ConnectApply(st, path[i], WriteRoutePoint(st.grid, path, i))

RECURSIVE ConnectLoop(_, _, _)
ConnectLoop(st, path, i) ==
  IF i > Len(path) THEN st ELSE ConnectLoop(ConnectStep(st, path, i), path, i + 1)

\* drawConnectingRoad: [grid, tilesPlaced, tilesUpdated, errors].
drawConnectingRoad(g, fromX, fromY, toX, toY) ==
  ConnectLoop([grid |-> g, tilesPlaced |-> 0, tilesUpdated |-> 0, errors |-> <<>>],
              generateManhattanPath(fromX, fromY, toX, toY), 1)

\* The totals of connectRoads after the bridge with result r.
BridgeAdd(acc, r) ==
  [grid |-> r.grid,
   tilesPlaced |-> acc.tilesPlaced + r.tilesPlaced,
   tilesUpdated |-> acc.tilesUpdated + r.tilesUpdated,
   errors |-> acc.errors \o r.errors]

BridgeNearest(acc, nearest) ==
  BridgeAdd(acc, drawConnectingRoad(acc.grid, nearest.from[1], nearest.from[2],
                                    nearest.to[1], nearest.to[2]))

\* A variant of the loop of connectRoads that draws one bridge only.
BridgeFromFirstOnly(acc, islands, i) ==
  IF i > Len(islands) THEN acc
  ELSE BridgeNearest(acc, findNearestTilesBetweenIslands(islands[i - 1].tiles,
                                                         islands[i].tiles))

\* The loop of connectRoads over the islands reported before any bridge was
\* drawn: island i (1-indexed, i >= 2) is bridged to island i - 1.  acc is
\* [grid, tilesPlaced, tilesUpdated, errors].
RECURSIVE BridgeFrom(_, _, _)
BridgeFrom(acc, islands, i) ==
  IF i > Len(islands) THEN acc
  ELSE BridgeFrom(
         BridgeNearest(acc, findNearestTilesBetweenIslands(islands[i - 1].tiles,
                                                           islands[i].tiles)),
         islands, i + 1)

\* A variant of the result of connectRoads that reports the connected flag
\* found before the bridges were drawn.
ConnectResultStale(connectivity, acc, finalConnectivity) ==
  [grid |-> acc.grid,
   result |-> [NoResult EXCEPT !.success = connectivity.connected,
                               !.tilesPlaced = acc.tilesPlaced,
                               !.tilesUpdated = acc.tilesUpdated,
                               !.errors = acc.errors,
                               !.previousIslandCount = connectivity.islandCount,
                               !.finalIslandCount = finalConnectivity.islandCount]]

\* The result of connectRoads after the bridges: success is the final connected flag.
ConnectResult(connectivity, acc, finalConnectivity) ==
  [grid |-> acc.grid,
   result |-> [NoResult EXCEPT !.success = finalConnectivity.connected,
                               !.tilesPlaced = acc.tilesPlaced,
                               !.tilesUpdated = acc.tilesUpdated,
                               !.errors = acc.errors,
                               !.previousIslandCount = connectivity.islandCount,
                               !.finalIslandCount = finalConnectivity.islandCount]]

\* "Verify connectivity after fixes"
ConnectVerify(connectivity, acc) ==
  ConnectResult(connectivity, acc, validateRoadConnectivity(acc.grid))

\* connectRoads once the connectivity before the call is known.  The early
\* return carries islandCount, kept here in both island-count fields.
ConnectFrom(g, connectivity) ==
  IF connectivity.connected
    THEN [grid |-> g,
          result |-> [NoResult EXCEPT !.success = TRUE,
                                      !.alreadyConnected = TRUE,
                                      !.previousIslandCount = connectivity.islandCount,
                                      !.finalIslandCount = connectivity.islandCount]]
    ELSE ConnectVerify(connectivity,
                       BridgeFrom([grid |-> g, tilesPlaced |-> 0, tilesUpdated |-> 0,
                                   errors |-> <<>>], connectivity.islands, 2))

\* execute of createConnectRoadsTool: [grid, result].
connectRoads(g) == ConnectFrom(g, validateRoadConnectivity(g))

-----------------------------------------------------------------------------
(* placeRoad (place-road.ts) and placeAsset (place-asset.ts) *)

\* The tracker createPlaceRoadTool starts with.
NewBudget(maxRoadTiles) == [tilesPlaced |-> 0, maxTiles |-> maxRoadTiles]

\* getNeighborExpectations: the directions in which a neighbouring road connects back.
getNeighborExpectations(g, x, y) ==
  SelectSeq(DIRECTION_ORDER, LAMBDA dir : NeighborConnectsBack(g, x, y, dir))

\* The end of placeRoad: "Place the road" with what setTile answered.
PlaceRoadSet(g, tr, set) ==
  IF set.error # "none"
    THEN [grid |-> g, tracker |-> tr, result |-> [NoResult EXCEPT !.error = set.error]]
    ELSE [grid |-> set.grid,
          tracker |-> [tr EXCEPT !.tilesPlaced = @ + 1],
          result |-> [NoResult EXCEPT !.success = TRUE, !.tilesPlaced = 1]]

\* A variant of PlaceRoadSprite without the check of the neighbour expectations.
PlaceRoadSpriteNoNeighbors(g, tr, x, y, spriteId, sprite) ==
  IF sprite = NoSprite
    THEN [grid |-> g, tracker |-> tr, result |-> [NoResult EXCEPT !.error = "UnknownSprite"]]
  ELSE IF ~isRoadSprite(sprite)
    THEN [grid |-> g, tracker |-> tr, result |-> [NoResult EXCEPT !.error = "NotRoad"]]
  ELSE PlaceRoadSet(g, tr, setTile(g, x, y, spriteId, "ground"))

\* placeRoad once the sprite is looked up.
PlaceRoadSprite(g, tr, x, y, spriteId, sprite) ==
  IF sprite = NoSprite
    THEN [grid |-> g, tracker |-> tr, result |-> [NoResult EXCEPT !.error = "UnknownSprite"]]
  ELSE IF ~isRoadSprite(sprite)
    THEN [grid |-> g, tracker |-> tr, result |-> [NoResult EXCEPT !.error = "NotRoad"]]
  ELSE IF Len(SelectSeq(getNeighborExpectations(g, x, y),
                        LAMBDA dir : ~Includes(sprite.connects, dir))) > 0
    THEN [grid |-> g, tracker |-> tr,
          result |-> [NoResult EXCEPT !.error = "ConnectivityMismatch"]]
  ELSE PlaceRoadSet(g, tr, setTile(g, x, y, spriteId, "ground"))

\* execute of createPlaceRoadTool: [grid, tracker, result].
placeRoad(g, tr, x, y, spriteId) ==
  IF ~InBounds(g, x, y)
    THEN [grid |-> g, tracker |-> tr, result |-> [NoResult EXCEPT !.error = "OutOfBounds"]]
  ELSE IF tr.tilesPlaced >= tr.maxTiles
    THEN [grid |-> g, tracker |-> tr, result |-> [NoResult EXCEPT !.error = "Budget"]]
  ELSE PlaceRoadSprite(g, tr, x, y, spriteId, getSprite(g, spriteId))

\* The end of placeAsset: the setTile call in its try block.
PlaceAssetSet(g, set) ==
  IF set.error # "none" THEN [grid |-> g, result |-> [NoResult EXCEPT !.error = set.error]]
  ELSE [grid |-> set.grid, result |-> [NoResult EXCEPT !.success = TRUE]]

\* A variant of the layer checks of placeAsset without the ground check.
PlaceAssetOnAnyGround(g, x, y, assetId, targetLayer) ==
  IF targetLayer = "object" /\ getTile(g, x, y, "object") # NoCell
    THEN [grid |-> g, result |-> [NoResult EXCEPT !.error = "Occupied"]]
  ELSE PlaceAssetSet(g, setTile(g, x, y, assetId, targetLayer))

\* placeAsset once the target layer is known.
PlaceAssetOn(g, x, y, assetId, targetLayer) ==
  IF targetLayer = "object" /\ getTile(g, x, y, "ground") = NoCell
    THEN [grid |-> g, result |-> [NoResult EXCEPT !.error = "NoGround"]]
  ELSE IF targetLayer = "object" /\ getTile(g, x, y, "object") # NoCell
    THEN [grid |-> g, result |-> [NoResult EXCEPT !.error = "Occupied"]]
  ELSE PlaceAssetSet(g, setTile(g, x, y, assetId, targetLayer))

\* execute of createPlaceAssetTool: [grid, result]; layer "" is the omitted argument.
placeAsset(g, x, y, assetId, layer) ==
  IF ~InBounds(g, x, y) THEN [grid |-> g, result |-> [NoResult EXCEPT !.error = "OutOfBounds"]]
  ELSE IF getSprite(g, assetId) = NoSprite
    THEN [grid |-> g, result |-> [NoResult EXCEPT !.error = "UnknownSprite"]]
  ELSE PlaceAssetOn(g, x, y, assetId,
                    IF layer = "" THEN getSprite(g, assetId).layer ELSE layer)

\* The element placeAssets pushes to results for placement p, answered r: the
\* placement with success and error ("" when none).
PlaceEntry(p, r) ==
  [grid |-> r.grid,
   entry |-> [x |-> p.x, y |-> p.y, assetId |-> p.assetId, layer |-> p.layer,
              success |-> r.result.success, error |-> r.result.error]]

\* One placement of placeAssets on grid g: [grid, entry].  The loop body makes
\* the checks of placeAsset, in the same order.
PlaceOne(g, p) == PlaceEntry(p, placeAsset(g, p.x, p.y, p.assetId, p.layer))

\* The loop state of placeAssets after a placement with answer one.
PlaceAssetsAdd(acc, one) ==
  [grid |-> one.grid, results |-> Append(acc.results, one.entry)]

\* The loop of placeAssets from placement i on: [grid, results].
RECURSIVE PlaceAssetsFrom(_, _, _)
PlaceAssetsFrom(acc, placements, i) ==
  IF i > Len(placements) THEN acc
  ELSE PlaceAssetsFrom(PlaceAssetsAdd(acc, PlaceOne(acc.grid, placements[i])),
                       placements, i + 1)

\* The end of placeAssets: the counts and the result.
PlaceAssetsResult(acc) ==
  [grid |-> acc.grid,
   result |-> [NoResult EXCEPT
                 !.success = (Len(SelectSeq(acc.results, LAMBDA r : ~r.success)) = 0),
                 !.tilesPlaced = Len(SelectSeq(acc.results, LAMBDA r : r.success)),
                 !.results = acc.results]]

\* execute of createPlaceAssetsTool: [grid, result]; placed is kept in tilesPlaced.
placeAssets(g, placements) ==
  PlaceAssetsResult(PlaceAssetsFrom([grid |-> g, results |-> <<>>], placements, 1))

-----------------------------------------------------------------------------
(* fillGround (fill-ground.ts) *)

\* The cells of the clamped region in loop order: y outer, x inner.
RegionCells(startX, startY, endX, endY) ==
  IF endX < startX \/ endY < startY THEN <<>>
  ELSE [k \in 1 .. (endX - startX + 1) * (endY - startY + 1) |->
          <<startX + ((k - 1) % (endX - startX + 1)),
            startY + ((k - 1) \div (endX - startX + 1))>>]

\* A variant of the loop body of fillGround that ignores the existing tile.
FillCellAlways(acc, point, groundTileId, overwrite) ==
  IF setTile(acc.grid, point[1], point[2], groundTileId, "ground").error # "none"
    THEN acc
  ELSE [acc EXCEPT !.grid = setTile(acc.grid, point[1], point[2], groundTileId, "ground").grid,
                   !.filled = @ + 1]

\* The loop body of fillGround on the cell `point`; acc is [grid, filled, skipped].
\* A throw of setTile is caught and the cell is not counted.
FillCell(acc, point, groundTileId, overwrite) ==
  IF getTile(acc.grid, point[1], point[2], "ground") # NoCell /\ ~overwrite
    THEN [acc EXCEPT !.skipped = @ + 1]
  ELSE IF setTile(acc.grid, point[1], point[2], groundTileId, "ground").error # "none"
    THEN acc
  ELSE [acc EXCEPT !.grid = setTile(acc.grid, point[1], point[2], groundTileId, "ground").grid,
                   !.filled = @ + 1]

RECURSIVE FillFrom(_, _, _, _, _)
FillFrom(acc, cells, i, groundTileId, overwrite) ==
  IF i > Len(cells) THEN acc
  ELSE FillFrom(FillCell(acc, cells[i], groundTileId, overwrite), cells, i + 1,
                groundTileId, overwrite)

FillResult(acc) ==
  [grid |-> acc.grid,
   result |-> [NoResult EXCEPT !.success = TRUE, !.tilesPlaced = acc.filled,
                               !.tilesSkipped = acc.skipped]]

\* execute of createFillGroundTool: [grid, result]; tilesFilled is kept in tilesPlaced.
fillGround(g, x1, y1, x2, y2, groundTileId, overwrite) ==
  IF getSprite(g, groundTileId) = NoSprite
    THEN [grid |-> g, result |-> [NoResult EXCEPT !.error = "UnknownSprite"]]
  ELSE IF getSprite(g, groundTileId).category # "ground"
    THEN [grid |-> g, result |-> [NoResult EXCEPT !.error = "NotGround"]]
  ELSE FillResult(FillFrom([grid |-> g, filled |-> 0, skipped |-> 0],
                           RegionCells(Max({0, Min({x1, x2})}), Max({0, Min({y1, y2})}),
                                       Min({g.width - 1, Max({x1, x2})}),
                                       Min({g.height - 1, Max({y1, y2})})),
                           1, groundTileId, overwrite))

-----------------------------------------------------------------------------
(* toJSON (grid-state.ts) and renderMap (render-map.ts).  A GameMap is a    *)
(* record [width, height, layers]; a layer is a sequence of rows, a row a   *)
(* sequence of cells (row y + 1 and entry x + 1 hold the cell of (x, y): the *)
(* source's arrays count from 0).  A Buffer is a record [assetId, w, h,     *)
(* call]: the sprite it was cut from, its scaled size and the number of the *)
(* extractSprite invocation that made it (two invocations give two          *)
(* buffers).  A scale is a pair <<numerator, denominator>>.                 *)

\* A variant of toJSON that exports the ground layer under both names.
toJSONGroundTwice(g) ==
  [width |-> g.width, height |-> g.height,
   layers |-> [ground |-> [r \in 1 .. g.height |->
                             [c \in 1 .. g.width |-> g.ground[<<c - 1, r - 1>>]]],
               objects |-> [r \in 1 .. g.height |->
                              [c \in 1 .. g.width |-> g.ground[<<c - 1, r - 1>>]]]]]

\* GridState.toJSON
toJSON(g) ==
  [width |-> g.width, height |-> g.height,
   layers |-> [ground |-> [r \in 1 .. g.height |->
                             [c \in 1 .. g.width |-> g.ground[<<c - 1, r - 1>>]]],
               objects |-> [r \in 1 .. g.height |->
                              [c \in 1 .. g.width |-> g.objects[<<c - 1, r - 1>>]]]]]

\* Math.round(a / b) for a >= 0 and b > 0: halves round up.
Round(a, b) == (2 * a + b) \div (2 * b)

\* extractSprite as invocation number call: the buffer of the scaled sprite.
extractSprite(sprite, tileSize, scale, call) ==
  [assetId |-> sprite.id,
   w |-> Round(sprite.w * tileSize * scale[1], scale[2]),
   h |-> Round(sprite.h * tileSize * scale[1], scale[2]),
   call |-> call]

\* The cells of a layer in the order of the nested loops (rows, then the
\* entries of a row), each with its x and y.
RECURSIVE RowCells(_, _, _)
RowCells(row, y, x) ==
  IF x >= Len(row) THEN <<>>
  ELSE <<[x |-> x, y |-> y, cell |-> row[x + 1]]>> \o RowCells(row, y, x + 1)

RECURSIVE LayerCells(_, _)
LayerCells(layer, y) ==
  IF y >= Len(layer) THEN <<>>
  ELSE RowCells(layer[y + 1], y, 0) \o LayerCells(layer, y + 1)

\* The asset ids of the cells of a layer with a truthy assetId, in loop order.
LayerAssets(layer) ==
  LET cells == SelectSeq(LayerCells(layer, 0), LAMBDA c : c.cell.assetId # "")
  IN [k \in 1 .. Len(cells) |-> cells[k].cell.assetId]

\* A variant of usedAssets that keeps every occurrence of an id.
usedAssetsRepeated(map) == LayerAssets(map.layers.ground) \o LayerAssets(map.layers.objects)

\* usedAssets of buildSpriteCache: a Set, so each id once, in insertion order.
usedAssets(map) == Unique(LayerAssets(map.layers.ground) \o LayerAssets(map.layers.objects))

\* buildSpriteCache: [cache, calls].  calls lists the ids extractSprite was
\* invoked for, in order; cache maps each of them to its buffer.
CacheOf(metadata, tileSize, scale, calls) ==
  [cache |-> [id \in Range(calls) |->
                extractSprite(FindSprite(metadata, id, 1), tileSize, scale,
                              CHOOSE k \in 1 .. Len(calls) :
                                calls[k] = id /\ \A j \in k + 1 .. Len(calls) : calls[j] # id)],
   calls |-> calls]

buildSpriteCache(metadata, tileSize, map, scale) ==
  CacheOf(metadata, tileSize, scale,
          SelectSeq(usedAssets(map), LAMBDA id : FindSprite(metadata, id, 1) # NoSprite))

\* processLayer: [composites, tilesRendered].  A composite is [input, left,
\* top]; its field of names the layer it was made from (the source keeps the
\* two lists apart until they are combined).
processLayer(layer, name, spriteCache, scaledTileSize) ==
  LET cells == SelectSeq(LayerCells(layer, 0),
                         LAMBDA c : c.cell.assetId # "" /\ c.cell.assetId \in DOMAIN spriteCache)
  IN [composites |-> [k \in 1 .. Len(cells) |->
                        [input |-> spriteCache[cells[k].cell.assetId],
                         left |-> cells[k].x * scaledTileSize,
                         top |-> cells[k].y * scaledTileSize,
                         of |-> name]],
      tilesRendered |-> Len(cells)]

NoLayer == [composites |-> <<>>, tilesRendered |-> 0]

\* A variant of AllComposites that puts the object composites first.
AllCompositesObjectsFirst(ground, objects) == objects.composites \o ground.composites

\* allComposites of renderMap: ground first (bottom), then objects (top).
AllComposites(ground, objects) == ground.composites \o objects.composites

\* renderMap from the sprite cache on.
RenderLayers(map, built, scaledTileSize, ground, objects) ==
  [composites |-> AllComposites(ground, objects),
   calls |-> built.calls,
   width |-> map.width * scaledTileSize,
   height |-> map.height * scaledTileSize,
   stats |-> [groundTilesRendered |-> ground.tilesRendered,
              objectTilesRendered |-> objects.tilesRendered,
              uniqueSpritesUsed |-> Len(built.calls)]]

RenderWithCache(map, built, scaledTileSize, layers) ==
  RenderLayers(map, built, scaledTileSize,
               IF Includes(layers, "ground")
                 THEN processLayer(map.layers.ground, "ground", built.cache, scaledTileSize)
                 ELSE NoLayer,
               IF Includes(layers, "objects")
                 THEN processLayer(map.layers.objects, "objects", built.cache, scaledTileSize)
                 ELSE NoLayer)

-----------------------------------------------------------------------------
(* The state machine.  grid is the GridState the tools share; tracker is the    *)
(* RoadNetworkTracker of the drawRoad tool instance; roadBudget is the          *)
(* RoadBudgetTracker of the placeRoad tool instance; last records the last call *)
(* made: the operation, its arguments and what it returned (or threw).  Its     *)
(* field left is the number of further calls the capped specification allows;   *)
(* the other specifications leave it at 0 and never read it.                    *)

Call(op, x, y, x2, y2, id, layer, result, left) ==
  [op |-> op, x |-> x, y |-> y, x2 |-> x2, y2 |-> y2, id |-> id, layer |-> layer,
   result |-> result, left |-> left]

NoCall == Call("init", 0, 0, 0, 0, "", "", NoResult, 0)

Left == IF last.left > 0 THEN last.left - 1 ELSE 0

CatalogIds(g) == {g.metadata[i].id : i \in 1 .. Len(g.metadata)}

\* Coordinates a caller may pass: the grid and one step outside it on each side.
CoordsX(g) == -1 .. g.width
CoordsY(g) == -1 .. g.height

\* grid.setTile(x, y, assetId, layer)
SetTile ==
  \E x \in CoordsX(grid), y \in CoordsY(grid), layer \in Layers,
     id \in CatalogIds(grid) \cup {MissingId} :
    LET r == setTile(grid, x, y, id, layer)
    IN /\ grid' = r.grid
       /\ last' = Call("setTile", x, y, 0, 0, id, layer,
                       [NoResult EXCEPT !.success = (r.error = "none"), !.error = r.error],
                       Left)
       /\ UNCHANGED <<tracker, roadBudget>>

\* grid.clearTile(x, y, layer)
ClearTile ==
  \E x \in CoordsX(grid), y \in CoordsY(grid), layer \in Layers :
    /\ grid' = clearTile(grid, x, y, layer)
    /\ last' = Call("clearTile", x, y, 0, 0, "", layer, [NoResult EXCEPT !.success = TRUE],
                    Left)
    /\ UNCHANGED <<tracker, roadBudget>>

\* The endpoints a drawRoad caller may pass: every in-bounds pair of points and
\* a few with one coordinate outside the grid.
DrawInputs(g) ==
  {<<a[1], a[2], b[1], b[2]>> : a \in Positions(g.width, g.height),
                                b \in Positions(g.width, g.height)}
  \cup {<<-1, 0, 0, 0>>, <<0, 0, g.width, 0>>, <<0, g.height, 0, 0>>, <<0, 0, 0, -1>>}

\* drawRoad({ fromX, fromY, toX, toY })
DrawRoadCall ==
  \E a \in DrawInputs(grid) :
    LET r == drawRoad(grid, tracker, a[1], a[2], a[3], a[4])
    IN /\ grid' = r.grid
       /\ tracker' = r.tracker
       /\ last' = Call("drawRoad", a[1], a[2], a[3], a[4], "", "", r.result, Left)
       /\ UNCHANGED roadBudget

\* connectRoads({})
ConnectRoadsCall ==
  LET r == connectRoads(grid)
  IN /\ grid' = r.grid
     /\ last' = Call("connectRoads", 0, 0, 0, 0, "", "", r.result, Left)
     /\ UNCHANGED <<tracker, roadBudget>>

\* The positions a placeRoad or placeAsset caller may pass: the grid and one
\* point outside it.
PlaceInputs(g) == Positions(g.width, g.height) \cup {<<-1, 0>>, <<0, g.height>>}

\* placeRoad({ x, y, spriteId })
PlaceRoadCall ==
  \E p \in PlaceInputs(grid), id \in CatalogIds(grid) \cup {MissingId} :
    LET r == placeRoad(grid, roadBudget, p[1], p[2], id)
    IN /\ grid' = r.grid
       /\ roadBudget' = r.tracker
       /\ last' = Call("placeRoad", p[1], p[2], 0, 0, id, "", r.result, Left)
       /\ UNCHANGED tracker

\* placeAsset({ x, y, assetId, layer })
PlaceAssetCall ==
  \E p \in PlaceInputs(grid), id \in CatalogIds(grid) \cup {MissingId},
     layer \in Layers \cup {""} :
    LET r == placeAsset(grid, p[1], p[2], id, layer)
    IN /\ grid' = r.grid
       /\ last' = Call("placeAsset", p[1], p[2], 0, 0, id, layer, r.result, Left)
       /\ UNCHANGED <<tracker, roadBudget>>

\* The regions a fillGround caller may pass: every pair of corners inside the
\* grid, one region larger than the grid and one outside it.
FillInputs(g) ==
  {<<a[1], a[2], b[1], b[2]>> : a \in Positions(g.width, g.height),
                                b \in Positions(g.width, g.height)}
  \cup {<<-1, -1, g.width, g.height>>, <<g.width, 0, g.width, 0>>}

\* fillGround({ x1, y1, x2, y2, groundTileId, overwrite })
FillGroundCall ==
  \E a \in FillInputs(grid), id \in CatalogIds(grid) \cup {MissingId}, overwrite \in BOOLEAN :
    LET r == fillGround(grid, a[1], a[2], a[3], a[4], id, overwrite)
    IN /\ grid' = r.grid
       /\ last' = Call("fillGround", a[1], a[2], a[3], a[4], id,
                       IF overwrite THEN "overwrite" ELSE "", r.result, Left)
       /\ UNCHANGED <<tracker, roadBudget>>

\* The placements a placeAssets caller may pass.
Placements(g) ==
  {[x |-> p[1], y |-> p[2], assetId |-> id, layer |-> layer] :
     p \in PlaceInputs(g), id \in CatalogIds(g) \cup {MissingId}, layer \in Layers \cup {""}}

\* The batches a placeAssets caller may pass (the schema asks for one placement
\* at least): one placement, or one placement followed by an object placement
\* at the same position.
Batches(g) ==
  {<<a>> : a \in Placements(g)}
  \cup UNION {{<<a, b>> : b \in {c \in Placements(g) :
                                      c.x = a.x /\ c.y = a.y /\ c.layer = "object"}} :
                a \in Placements(g)}

\* placeAssets({ placements })
PlaceAssetsCall ==
  \E placements \in Batches(grid) :
    LET r == placeAssets(grid, placements)
    IN /\ grid' = r.grid
       /\ last' = Call("placeAssets", 0, 0, 0, 0, "", "", r.result, Left)
       /\ UNCHANGED <<tracker, roadBudget>>

-----------------------------------------------------------------------------
(* Specifications *)

\* A grid whose layers hold the tiles of f, a function from <<layer, position>>
\* to ids, and nothing else: what setTile calls on a fresh grid produce.
GridWith(width, height, metadata, f) ==
  [GridState(width, height, metadata) EXCEPT
     !.ground = [p \in Positions(width, height) |->
                   IF <<"ground", p>> \in DOMAIN f
                     THEN [assetId |-> f[<<"ground", p>>], layer |-> "ground"] ELSE NoCell],
     !.objects = [p \in Positions(width, height) |->
                   IF <<"object", p>> \in DOMAIN f
                     THEN [assetId |-> f[<<"object", p>>], layer |-> "object"] ELSE NoCell]]

\* One drawRoad tool instance and connectRoads on a fresh grid with the built-in catalog.
Init ==
  /\ grid = GridState(SmallW, SmallH, BuiltInSprites)
  /\ tracker = NewTracker(MaxRoadTiles)
  /\ roadBudget = NewBudget(MaxRoadTiles)
  /\ last = NoCall

Next == DrawRoadCall \/ ConnectRoadsCall

Spec == Init /\ [][Next]_vars

\* One drawRoad tool instance alone on a fresh grid with the built-in catalog.
InitDraw ==
  /\ grid = GridState(DrawW, DrawH, BuiltInSprites)
  /\ tracker = NewTracker(DrawBudget)
  /\ roadBudget = NewBudget(DrawBudget)
  /\ last = NoCall

NextDraw == DrawRoadCall

SpecDraw == InitDraw /\ [][NextDraw]_vars

\* All road-writing tools on one fresh grid, MaxCalls calls in all.
InitTools ==
  /\ grid = GridState(SmallW, SmallH, LayoutCatalog)
  /\ tracker = NewTracker(MaxRoadTiles)
  /\ roadBudget = NewBudget(MaxRoadTiles)
  /\ last = [NoCall EXCEPT !.left = MaxCalls]

NextTools ==
  /\ last.left > 0
  /\ (DrawRoadCall \/ PlaceRoadCall \/ PlaceAssetCall \/ ConnectRoadsCall)

SpecTools == InitTools /\ [][NextTools]_vars

\* One setTile or clearTile call on a grid that holds any few tiles.
InitRaw ==
  /\ \E S \in {T \in SUBSET (Layers \X Positions(RawW, RawH)) : Cardinality(T) <= RawMaxCells} :
       \E f \in [S -> CatalogIds(GridState(RawW, RawH, RawCatalog))] :
         grid = GridWith(RawW, RawH, RawCatalog, f)
  /\ tracker = NewTracker(MaxRoadTiles)
  /\ roadBudget = NewBudget(MaxRoadTiles)
  /\ last = NoCall

NextRaw == last.op = "init" /\ (SetTile \/ ClearTile)

SpecRaw == InitRaw /\ [][NextRaw]_vars

\* The road tiles a starting grid of the repair model may hold: a straight
\* tile of each orientation, a corner and a T-junction of the built-in catalog.
StartIds == {"road_ew", "road_ns", "road_sw", "road_sew"}

\* The w x h grids that hold at most n road tiles, each one of StartIds, and nothing else.
RoadGrids(w, h, n) ==
  {GridWith(w, h, BuiltInSprites, f) :
     f \in UNION {[{<<"ground", p>> : p \in S} -> StartIds] :
                    S \in {T \in SUBSET Positions(w, h) : Cardinality(T) <= n}}}

\* One connectRoads call on a grid that holds any few road tiles.
InitRepair ==
  /\ grid \in RoadGrids(StartW, StartH, MaxStartRoads)
  /\ tracker = NewTracker(MaxRoadTiles)
  /\ roadBudget = NewBudget(MaxRoadTiles)
  /\ last = NoCall

NextRepair == last.op = "init" /\ ConnectRoadsCall

SpecRepair == InitRepair /\ [][NextRepair]_vars

\* connectRoads, called again and again, on a grid that holds up to
\* MaxRepeatRoads road tiles (three islands at most).
InitRepeat ==
  /\ grid \in RoadGrids(SmallW, SmallH, MaxRepeatRoads)
  /\ tracker = NewTracker(MaxRoadTiles)
  /\ roadBudget = NewBudget(MaxRoadTiles)
  /\ last = NoCall

NextRepeat == ConnectRoadsCall

SpecRepeat == InitRepeat /\ [][NextRepeat]_vars

\* The cells of a straight segment of SegmentLen tiles from (x, y), horizontal or vertical.
Segment(x, y, horizontal) ==
  {IF horizontal THEN <<x + k, y>> ELSE <<x, y + k>> : k \in 0 .. SegmentLen - 1}

Adjacent4(p, q) == Abs(p[1] - q[1]) + Abs(p[2] - q[2]) = 1

\* connectRoads on a RepairSide x RepairSide grid whose only road tiles are two
\* disjoint, non-adjacent straight segments of the built-in straight tiles.
InitTwoSegments ==
  /\ \E a \in Positions(RepairSide, RepairSide), b \in Positions(RepairSide, RepairSide),
        ha \in BOOLEAN, hb \in BOOLEAN :
       LET A == Segment(a[1], a[2], ha)
           B == Segment(b[1], b[2], hb)
       IN /\ A \cup B \subseteq Positions(RepairSide, RepairSide)
          /\ \A p \in A, q \in B : p # q /\ ~Adjacent4(p, q)
          /\ grid = GridWith(RepairSide, RepairSide, BuiltInSprites,
                             [c \in {<<"ground", p>> : p \in A \cup B} |->
                                IF c[2] \in A
                                  THEN (IF ha THEN "road_ew" ELSE "road_ns")
                                  ELSE (IF hb THEN "road_ew" ELSE "road_ns")])
  /\ tracker = NewTracker(MaxRoadTiles)
  /\ roadBudget = NewBudget(MaxRoadTiles)
  /\ last = NoCall

NextTwoSegments == ConnectRoadsCall

SpecTwoSegments == InitTwoSegments /\ [][NextTwoSegments]_vars

\* The catalog of the planner-tool models: the two straight road slots, a plain
\* ground slot, the 2x2 building slot and the prop slot of the built-in catalog.
PlanCatalog == <<RoadSprites[1], RoadSprites[2], groundSlot, buildingSlot, propSlot>>

\* A fresh grid and the tools the factories bind to it (drawRoad with its
\* tracker, placeRoad with its budget; maxRoadTiles is the option MaxRoadTiles or,
\* without the option, the default of createPlannerTools),
\* PlanCalls calls in all.
\* createPlannerTools: options.maxRoadTiles ?? Math.floor(width * height * 0.2).
DefaultMaxRoadTiles(width, height) == (width * height) \div 5

InitPlanner ==
  \E maxRoadTiles \in {MaxRoadTiles, DefaultMaxRoadTiles(PlanW, PlanH)} :
    /\ grid = GridState(PlanW, PlanH, PlanCatalog)
    /\ tracker = NewTracker(maxRoadTiles)
    /\ roadBudget = NewBudget(maxRoadTiles)
    /\ last = [NoCall EXCEPT !.left = PlanCalls]

\* viewMap({ layer }): reads the grid and writes nothing.  The record returned
\* is kept in last.result next to the fields every other result has.
ViewMapCall ==
  \E layer \in {"ground", "objects", "both"} :
    /\ last' = Call("viewMap", 0, 0, 0, 0, "", layer, viewMap(grid, layer) @@ NoResult, Left)
    /\ UNCHANGED <<grid, tracker, roadBudget>>

\* createPlannerTools: the five tools it binds to one grid.
ToolCall ==
  \/ PlaceRoadCall
  \/ FillGroundCall
  \/ PlaceAssetCall
  \/ ConnectRoadsCall
  \/ ViewMapCall

\* A call of any tool a factory of planner/tools creates: the five of
\* createPlannerTools, and drawRoad and placeAssets, whose factories
\* (createDrawRoadTool, createPlaceAssetsTool) are exported for a caller to bind.
FactoryToolCall ==
  \/ ToolCall
  \/ DrawRoadCall
  \/ PlaceAssetsCall

NextPlanner == last.left > 0 /\ FactoryToolCall

SpecPlanner == InitPlanner /\ [][NextPlanner]_vars

\* Every tool and the raw tile operations on one fresh grid.
NextAll == last.left > 0 /\ (SetTile \/ ClearTile \/ FactoryToolCall)

SpecAll == InitPlanner /\ [][NextAll]_vars

\* --- findMatchingRoadSprite as a function of the catalog and the directions ---

\* The connects arrays of the catalogs of this model: duplicate-free, like every
\* connects array of buildLayoutSlots.
MatchConnects ==
  {<<>>, <<"east">>, <<"east", "west">>, <<"west", "east">>, <<"east", "west", "north">>}

\* A catalog entry in the shape of RoadSlot, with any category and type.
Slot(id, category, type, connects) ==
  [id |-> id, category |-> category, w |-> 1, h |-> 1,
   layer |-> IF category = "ground" THEN "ground" ELSE "object",
   type |-> type, connects |-> connects]

MatchIds == <<"slot_0", "slot_1", "slot_2", "slot_3">>

SlotsAt(i) ==
  {Slot(MatchIds[i], c, t, d) : c \in {"ground", "prop"}, t \in {"path", "cap", "none"},
                                d \in MatchConnects}

MatchCatalogs == [1 .. MatchLen -> UNION {SlotsAt(i) : i \in 1 .. MatchLen}]

\* The record of a findMatchingRoadSprite call: the directions and the sprite returned.
MatchCall(connections, sprite) ==
  [op |-> "findMatchingRoadSprite", connections |-> connections, sprite |-> sprite, left |-> 0]

InitMatch ==
  /\ \E catalog \in {c \in MatchCatalogs : \A i \in 1 .. MatchLen : c[i].id = MatchIds[i]} :
       grid = GridState(1, 1, catalog)
  /\ tracker = NewTracker(MaxRoadTiles)
  /\ roadBudget = NewBudget(MaxRoadTiles)
  /\ last = NoCall

\* findMatchingRoadSprite(grid, connections)
FindMatchCall ==
  /\ last.op = "init"
  /\ \E connections \in MatchConnects :
       last' = MatchCall(connections, findMatchingRoadSprite(grid, connections))
  /\ UNCHANGED <<grid, tracker, roadBudget>>

NextMatch == FindMatchCall

SpecMatch == InitMatch /\ [][NextMatch]_vars

\* --- updateAdjacentRoad on a grid that holds a few ground tiles ---

\* The ground tiles a starting grid of this model may hold: a straight road, a
\* corner, a T-junction and a plain ground tile of the built-in catalog.
UpgradeIds == {"road_ew", "road_se", "road_sew", "ground_0"}

\* The record of an updateAdjacentRoad call: its arguments and the boolean returned.
UpgradeRecord(x, y, newConnection, updated) ==
  [op |-> "updateAdjacentRoad", x |-> x, y |-> y, newConnection |-> newConnection,
   updated |-> updated, left |-> 0]

InitUpgrade ==
  /\ \E S \in {T \in SUBSET Positions(SmallW, SmallH) : Cardinality(T) <= UpgradeMaxCells} :
       \E f \in [{<<"ground", p>> : p \in S} -> UpgradeIds] :
         grid = GridWith(SmallW, SmallH, LayoutCatalog, f)
  /\ tracker = NewTracker(MaxRoadTiles)
  /\ roadBudget = NewBudget(MaxRoadTiles)
  /\ last = NoCall

\* updateAdjacentRoad(grid, x, y, newConnection), on any cell of the grid or
\* next to it.
UpgradeCall ==
  /\ last.op = "init"
  /\ \E x \in CoordsX(grid), y \in CoordsY(grid), newConnection \in Range(DIRECTION_ORDER) :
       LET r == updateAdjacentRoad(grid, x, y, newConnection)
       IN /\ grid' = r.grid
          /\ last' = UpgradeRecord(x, y, newConnection, r.updated)
  /\ UNCHANGED <<tracker, roadBudget>>

\* The same updateAdjacentRoad call once more.
UpgradeAgain ==
  /\ last.op = "updateAdjacentRoad"
  /\ LET r == updateAdjacentRoad(grid, last.x, last.y, last.newConnection)
     IN /\ grid' = r.grid
        /\ last' = [op |-> "updateAdjacentRoadAgain", x |-> last.x, y |-> last.y,
                    newConnection |-> last.newConnection, updated |-> r.updated, left |-> 0]
  /\ UNCHANGED <<tracker, roadBudget>>

NextUpgrade == UpgradeCall \/ UpgradeAgain

SpecUpgrade == InitUpgrade /\ [][NextUpgrade]_vars

\* --- generateManhattanPath as a function of its endpoints ---

\* The record of a generateManhattanPath call: the endpoints and the path returned.
PathRecord(fromX, fromY, toX, toY, path) ==
  [op |-> "generateManhattanPath", x |-> fromX, y |-> fromY, x2 |-> toX, y2 |-> toY,
   path |-> path, left |-> 0]

InitPath ==
  /\ grid = GridState(PathW, PathH, BuiltInSprites)
  /\ tracker = NewTracker(MaxRoadTiles)
  /\ roadBudget = NewBudget(MaxRoadTiles)
  /\ last = NoCall

\* generateManhattanPath(fromX, fromY, toX, toY) for endpoints inside the grid
PathCall ==
  /\ \E from \in Positions(grid.width, grid.height), to \in Positions(grid.width, grid.height) :
       last' = PathRecord(from[1], from[2], to[1], to[2],
                          generateManhattanPath(from[1], from[2], to[1], to[2]))
  /\ UNCHANGED <<grid, tracker, roadBudget>>

NextPath == PathCall

SpecPath == InitPath /\ [][NextPath]_vars

\* One drawRoad tool instance alone on a fresh RouteW x RouteH grid, called at
\* most RouteCalls times.
InitRoute ==
  /\ grid = GridState(RouteW, RouteH, BuiltInSprites)
  /\ tracker = NewTracker(RouteBudget)
  /\ roadBudget = NewBudget(RouteBudget)
  /\ last = [NoCall EXCEPT !.left = RouteCalls]

NextRoute == last.left > 0 /\ DrawRoadCall

SpecRoute == InitRoute /\ [][NextRoute]_vars

\* --- getRoadIslands and validateRoadConnectivity on a grid that holds a few tiles ---

\* The ground tiles a grid of this model may hold: a road tile and a plain ground tile.
IslandIds == {"road_ew", "ground_0"}

\* A SmallW x SmallH grid with at most IslandMaxCells ground tiles, each a road
\* or a plain ground tile, and at most one road tile on the object layer.
InitIslands ==
  /\ \E S \in {T \in SUBSET Positions(SmallW, SmallH) : Cardinality(T) <= IslandMaxCells} :
       \E f \in [{<<"ground", p>> : p \in S} -> IslandIds] :
         \E o \in {<<>>} \cup {<<"object", p>> :> "road_ew" : p \in Positions(SmallW, SmallH)} :
           grid = GridWith(SmallW, SmallH, LayoutCatalog, f @@ o)
  /\ tracker = NewTracker(MaxRoadTiles)
  /\ roadBudget = NewBudget(MaxRoadTiles)
  /\ last = NoCall

\* grid.getRoadIslands()
RoadIslandsCall ==
  /\ last.op = "init"
  /\ last' = [op |-> "getRoadIslands", islands |-> getRoadIslands(grid), left |-> 0]
  /\ UNCHANGED <<grid, tracker, roadBudget>>

\* grid.validateRoadConnectivity()
ValidateCall ==
  /\ last.op = "init"
  /\ last' = [op |-> "validateRoadConnectivity", result |-> validateRoadConnectivity(grid),
              left |-> 0]
  /\ UNCHANGED <<grid, tracker, roadBudget>>

NextIslands == RoadIslandsCall \/ ValidateCall

SpecIslands == InitIslands /\ [][NextIslands]_vars

\* --- toJSON and a grid rebuilt from it; renderMap of a map ---

\* Write the non-empty cells of a layer of a GameMap back with setTile.
RECURSIVE WriteBack(_, _, _, _)
WriteBack(g, cells, layer, i) ==
  IF i > Len(cells) THEN g
  ELSE IF cells[i].cell = NoCell THEN WriteBack(g, cells, layer, i + 1)
  ELSE WriteBack(setTile(g, cells[i].x, cells[i].y, cells[i].cell.assetId, layer).grid,
                 cells, layer, i + 1)

\* A new GridState of the size of the map, filled from the map with setTile.
Rebuild(map, metadata) ==
  WriteBack(WriteBack(GridState(map.width, map.height, metadata),
                      LayerCells(map.layers.ground, 0), "ground", 1),
            LayerCells(map.layers.objects, 0), "object", 1)

\* grid.toJSON(), and a grid rebuilt from the structure it returns
ToJSONCall ==
  /\ last.op = "init"
  /\ last' = [op |-> "toJSON", map |-> toJSON(grid),
              rebuilt |-> Rebuild(toJSON(grid), grid.metadata), left |-> 0]
  /\ UNCHANGED <<grid, tracker, roadBudget>>

NextJson == ToJSONCall

SpecJson == InitRaw /\ [][NextJson]_vars

\* The tile sizes, scales and layer selections of the renderMap model.
RenderTileSizes == {2, 6}
RenderScales == {<<1, 4>>, <<1, 1>>}
RenderLayerChoices ==
  {<<>>, <<"ground">>, <<"objects">>, <<"ground", "objects">>, <<"objects", "ground">>}

\* At most this many grid writes run while one renderMap call awaits.
RenderWrites == 2

\* A grid of RawW x RawH cells that holds at most RawMaxCells tiles, each with
\* an id of the catalog or an id the catalog does not hold; the map handed to
\* renderMap is its toJSON(), whose layers are the arrays of the grid itself.
InitRender ==
  /\ \E S \in {T \in SUBSET (Layers \X Positions(RawW, RawH)) :
                 Cardinality(T) <= RawMaxCells} :
       \E f \in [S -> CatalogIds(GridState(RawW, RawH, RawCatalog)) \cup {MissingId}] :
         grid = GridWith(RawW, RawH, RawCatalog, f)
  /\ tracker = NewTracker(MaxRoadTiles)
  /\ roadBudget = NewBudget(MaxRoadTiles)
  /\ last = NoCall

\* renderMap(map, metadata, spritesheetPath, outputPath, { scale, layers }) up
\* to its first await: buildSpriteCache has read usedAssets from the map and
\* waits for extractSprite.  before is the grid as it was read; built is the
\* cache the awaited extractions give.
RenderBegin ==
  /\ last.op = "init"
  /\ \E tileSize \in RenderTileSizes, scale \in RenderScales, layers \in RenderLayerChoices :
       last' = [op |-> "renderMap:await", before |-> grid, tileSize |-> tileSize,
                scale |-> scale, layers |-> layers,
                built |-> buildSpriteCache(grid.metadata, tileSize, toJSON(grid), scale),
                writes |-> 0, left |-> 0]
  /\ UNCHANGED <<grid, tracker, roadBudget>>

\* While renderMap awaits (the sprite cache, or later output.toFile), another
\* task writes a cell of the grid (setTile with an id of the catalog, or
\* clearTile): the map renderMap holds changes with it.
RenderAwaitWrite ==
  /\ last.op \in {"renderMap:await", "renderMap:toFile"}
  /\ last.writes < RenderWrites
  /\ \E p \in Positions(grid.width, grid.height), layer \in Layers :
       \/ \E id \in CatalogIds(grid) : grid' = setTile(grid, p[1], p[2], id, layer).grid
       \/ grid' = clearTile(grid, p[1], p[2], layer)
  /\ grid' # grid
  /\ last' = [last EXCEPT !.writes = @ + 1]
  /\ UNCHANGED <<tracker, roadBudget>>

\* renderMap from the sprite cache to its second await: processLayer reads the
\* layers of the map as they are now, the composites are combined and handed
\* to sharp, and output.toFile is awaited.  composited is the grid as it was
\* read; result holds the composite list, the extractSprite invocations and
\* the counts of the RenderResult.
RenderComposite ==
  /\ last.op = "renderMap:await"
  /\ last' = [op |-> "renderMap:toFile", before |-> last.before, composited |-> grid,
              tileSize |-> last.tileSize, scale |-> last.scale, layers |-> last.layers,
              writes |-> last.writes,
              result |-> RenderWithCache(toJSON(grid), last.built,
                                         Round(last.tileSize * last.scale[1], last.scale[2]),
                                         last.layers),
              left |-> 0]
  /\ UNCHANGED <<grid, tracker, roadBudget>>

\* renderMap after output.toFile: the RenderResult is returned.
RenderEnd ==
  /\ last.op = "renderMap:toFile"
  /\ last' = [last EXCEPT !.op = "renderMap"]
  /\ UNCHANGED <<grid, tracker, roadBudget>>

NextRender == RenderBegin \/ RenderAwaitWrite \/ RenderComposite \/ RenderEnd

SpecRender == InitRender /\ [][NextRender]_vars

\* --- one fillGround call on a grid that holds a few tiles ---

\* A road tile and a plain ground tile of the built-in catalog.
FillCatalog == <<RoadSprites[1], groundSlot>>

InitFill ==
  /\ \E S \in {T \in SUBSET (Layers \X Positions(FillW, FillH)) :
                 Cardinality(T) <= FillMaxCells} :
       \E f \in [S -> CatalogIds(GridState(FillW, FillH, FillCatalog))] :
         grid = GridWith(FillW, FillH, FillCatalog, f)
  /\ tracker = NewTracker(MaxRoadTiles)
  /\ roadBudget = NewBudget(MaxRoadTiles)
  /\ last = NoCall

NextFill == last.op = "init" /\ FillGroundCall

SpecFill == InitFill /\ [][NextFill]_vars

\* --- one placeRoad call on a grid that holds a few ground tiles ---

\* Two straight roads, a corner and a plain ground tile of the built-in catalog.
PlaceRoadCatalog == <<RoadSprites[1], RoadSprites[2], RoadSprites[6], groundSlot>>

\* The tool has placed any number of tiles up to its budget, and the grid
\* holds at most RawMaxCells ground tiles.
InitPlaceRoad ==
  /\ \E S \in {T \in SUBSET Positions(RawW, RawH) : Cardinality(T) <= RawMaxCells} :
       \E f \in [{<<"ground", p>> : p \in S} ->
                   CatalogIds(GridState(RawW, RawH, PlaceRoadCatalog))] :
         grid = GridWith(RawW, RawH, PlaceRoadCatalog, f)
  /\ tracker = NewTracker(MaxRoadTiles)
  /\ \E n \in 0 .. MaxRoadTiles : roadBudget = [NewBudget(MaxRoadTiles) EXCEPT !.tilesPlaced = n]
  /\ last = NoCall

NextPlaceRoad == last.op = "init" /\ PlaceRoadCall

SpecPlaceRoad == InitPlaceRoad /\ [][NextPlaceRoad]_vars

\* --- findNearestTilesBetweenIslands as a function of two islands ---

\* The tile lists without repeats of 1 to n tiles of a w x h area.
TileLists(w, h, n) ==
  UNION {{s \in [1 .. k -> Positions(w, h)] : \A i, j \in 1 .. k : s[i] = s[j] => i = j} :
           k \in 1 .. n}

\* The record of a findNearestTilesBetweenIslands call: the islands and the answer.
NearestRecord(island1, island2, result) ==
  [op |-> "findNearestTilesBetweenIslands", island1 |-> island1, island2 |-> island2,
   result |-> result, left |-> 0]

InitNearest ==
  /\ grid = GridState(NearW, NearH, BuiltInSprites)
  /\ tracker = NewTracker(MaxRoadTiles)
  /\ roadBudget = NewBudget(MaxRoadTiles)
  /\ last = NoCall

\* findNearestTilesBetweenIslands(island1, island2) for two islands without a
\* common tile
NearestCall ==
  /\ \E island1 \in TileLists(grid.width, grid.height, NearMaxLen) :
       \E island2 \in TileLists(grid.width, grid.height, NearMaxLen) :
         /\ Range(island1) \cap Range(island2) = {}
         /\ last' = NearestRecord(island1, island2,
                                  findNearestTilesBetweenIslands(island1, island2))
  /\ UNCHANGED <<grid, tracker, roadBudget>>

NextNearest == last.op = "init" /\ NearestCall

SpecNearest == InitNearest /\ [][NextNearest]_vars

\* --- one road tool called again and again on a fresh grid ---

\* Both road tools are made for a fresh BudgetW x BudgetH grid with the budget
\* BudgetMax; a run calls only drawRoad or only placeRoad, at most BudgetCalls times.
InitBudget ==
  /\ grid = GridState(BudgetW, BudgetH, PlaceRoadCatalog)
  /\ tracker = NewTracker(BudgetMax)
  /\ roadBudget = NewBudget(BudgetMax)
  /\ last = [NoCall EXCEPT !.left = BudgetCalls]

NextBudget ==
  \/ last.left > 0 /\ last.op \in {"init", "drawRoad"} /\ DrawRoadCall
  \/ last.left > 0 /\ last.op \in {"init", "placeRoad"} /\ PlaceRoadCall

SpecBudget == InitBudget /\ [][NextBudget]_vars

\* --- placeAsset and placeAssets on a grid whose ground is filled ---

\* Of the built-in spritesheet: the first ground sprite, the first two 2x2
\* building sprites (alike but for the id) and the first prop sprite.
AssetCatalog ==
  <<groundSlot, buildingSlot,
    BuiltInSprites[Len(roadConnections) + Len(groundHints) + 2], propSlot>>

\* A PlanW x PlanH grid after fillGround over all of it: every ground cell holds
\* the plain ground tile, the object layer is empty.  PlanCalls calls in all.
InitAssets ==
  /\ grid = GridWith(PlanW, PlanH, AssetCatalog,
                     [c \in {"ground"} \X Positions(PlanW, PlanH) |-> groundSlot.id])
  /\ tracker = NewTracker(MaxRoadTiles)
  /\ roadBudget = NewBudget(MaxRoadTiles)
  /\ last = [NoCall EXCEPT !.left = PlanCalls]

NextAssets == last.left > 0 /\ (PlaceAssetCall \/ PlaceAssetsCall)

SpecAssets == InitAssets /\ [][NextAssets]_vars

\* --- one connectRoads call under a catalog that holds only a few road tiles ---

\* The catalogs of this model: every non-empty selection of the east-west
\* path, the north-south path and the south-west corner, in catalog order.
SparseCatalogs ==
  {SelectSeq(<<RoadSprites[1], RoadSprites[2], RoadSprites[6]>>,
             LAMBDA s : s.id \in ids) :
     ids \in (SUBSET {"road_ew", "road_ns", "road_sw"}) \ {{}}}

\* A SmallW x SmallH grid that holds at most RawMaxCells road tiles of its catalog.
InitSparse ==
  /\ \E catalog \in SparseCatalogs :
       \E S \in {T \in SUBSET Positions(SmallW, SmallH) : Cardinality(T) <= RawMaxCells} :
         \E f \in [{<<"ground", p>> : p \in S} ->
                     CatalogIds(GridState(SmallW, SmallH, catalog))] :
           grid = GridWith(SmallW, SmallH, catalog, f)
  /\ tracker = NewTracker(MaxRoadTiles)
  /\ roadBudget = NewBudget(MaxRoadTiles)
  /\ last = NoCall

NextSparse == last.op = "init" /\ ConnectRoadsCall

SpecSparse == InitSparse /\ [][NextSparse]_vars

\* --- one drawRoad call under the catalog of all fifteen road tiles ---

\* The road tiles a starting grid of this model may hold: a straight tile, a
\* corner and a cap.
FullStartIds == {"road_ew", "road_sw", "road_n"}

\* Do every two neighbouring road tiles of g connect toward each other, or
\* neither toward the other?
ConnectsBothWays(g) ==
  \A p \in Positions(g.width, g.height), k \in 1 .. Len(DIRECTION_ORDER) :
    (/\ isRoadAt(g, p[1], p[2])
     /\ isRoadAt(g, p[1] + DIRECTION_OFFSETS(DIRECTION_ORDER[k]).dx,
                    p[2] + DIRECTION_OFFSETS(DIRECTION_ORDER[k]).dy))
    => (Includes(getSprite(g, g.ground[p].assetId).connects, DIRECTION_ORDER[k])
          <=> NeighborConnectsBack(g, p[1], p[2], DIRECTION_ORDER[k]))

\* A drawRoad tool made for a RouteW x RouteH grid that already holds at most
\* RawMaxCells road tiles, neighbouring ones connected both ways or not at all.
InitFull ==
  /\ \E S \in {T \in SUBSET Positions(RouteW, RouteH) : Cardinality(T) <= RawMaxCells} :
       \E f \in [{<<"ground", p>> : p \in S} -> FullStartIds] :
         /\ grid = GridWith(RouteW, RouteH, FullCatalog, f)
         /\ ConnectsBothWays(GridWith(RouteW, RouteH, FullCatalog, f))
  /\ tracker = NewTracker(DrawBudget)
  /\ roadBudget = NewBudget(DrawBudget)
  /\ last = NoCall

NextFull == last.op = "init" /\ DrawRoadCall

SpecFull == InitFull /\ [][NextFull]_vars

\* --- one connectRoads call under the catalog of all fifteen road tiles ---

\* A StartW x StartH grid that holds at most MaxStartRoads road tiles.
InitFullRepair ==
  /\ \E S \in {T \in SUBSET Positions(StartW, StartH) : Cardinality(T) <= MaxStartRoads} :
       \E f \in [{<<"ground", p>> : p \in S} -> FullStartIds] :
         grid = GridWith(StartW, StartH, FullCatalog, f)
  /\ tracker = NewTracker(MaxRoadTiles)
  /\ roadBudget = NewBudget(MaxRoadTiles)
  /\ last = NoCall

NextFullRepair == last.op = "init" /\ ConnectRoadsCall

SpecFullRepair == InitFullRepair /\ [][NextFullRepair]_vars

-----------------------------------------------------------------------------
(* Properties *)

\* The cells of g that hold a road tile.
RoadCells(g) == {p \in Positions(g.width, g.height) : isRoadAt(g, p[1], p[2])}

\* The directions the tile on the ground layer at p connects to, as a set.
ConnectsAt(g, p) ==
  {getSprite(g, g.ground[p].assetId).connects[i] :
     i \in 1 .. Len(getSprite(g, g.ground[p].assetId).connects)}

\* The cells of R that a chain of 4-adjacent cells of R links to a cell of S.
RECURSIVE Reach(_, _)
Reach(S, R) ==
  LET N == S \cup {q \in R : \E p \in S : Adjacent4(p, q)}
  IN IF N = S THEN S ELSE Reach(N, R)

\* The number of 4-connected components of the set R of cells, and whether the
\* road network of g has at most one: connectivity stated from the cells,
\* without the flood fill.
RECURSIVE ComponentCount(_)
ComponentCount(R) ==
  IF R = {} THEN 0
  ELSE 1 + ComponentCount(R \ Reach({CHOOSE p \in R : TRUE}, R))

NetworkConnected(g) == ComponentCount(RoadCells(g)) <= 1

\* C1: with the built-in catalog, after any calls of drawRoad and connectRoads
\* on a grid that started without roads, two 4-adjacent road tiles connect to
\* each other reciprocally: one names the direction of the other exactly when
\* the other names the opposite direction.
C1_LocallyConsistent ==
  \A p \in RoadCells(grid) : \A k \in 1 .. Len(DIRECTION_ORDER) :
    LET dir == DIRECTION_ORDER[k]
        q == <<p[1] + DIRECTION_OFFSETS(dir).dx, p[2] + DIRECTION_OFFSETS(dir).dy>>
    IN q \in RoadCells(grid) =>
         (dir \in ConnectsAt(grid, p) <=> OPPOSITE_DIRECTION(dir) \in ConnectsAt(grid, q))

\* C2: after any calls of drawRoad by one tool instance on a grid that started
\* without roads, validateRoadConnectivity().connected is true.
C2_DrawRoadKeepsConnected == validateRoadConnectivity(grid).connected

\* Is (x, y) on, or 4-adjacent to, a cell of g that holds a road tile now?
OnOrNextToRoad(g, x, y) ==
  \E p \in RoadCells(g) : p = <<x, y>> \/ Adjacent4(p, <<x, y>>)

\* C3: whenever the grid holds a road tile, whichever tool wrote it, a drawRoad
\* call with neither endpoint on or 4-adjacent to a road cell of the grid is
\* rejected and writes no cell.
C3_GateReadsGrid ==
  [][(/\ last'.op = "drawRoad"
      /\ RoadCells(grid) # {}
      /\ ~OnOrNextToRoad(grid, last'.x, last'.y)
      /\ ~OnOrNextToRoad(grid, last'.x2, last'.y2))
     => (/\ ~last'.result.success
         /\ last'.result.error # ""
         /\ grid' = grid)]_vars

\* C4: on a RepairSide x RepairSide grid whose only roads are two disjoint,
\* non-adjacent straight segments of SegmentLen built-in straight tiles,
\* getRoadIslands returns exactly 2 islands, and after connectRoads
\* validateRoadConnectivity().connected is true.
C4_TwoSegmentsRepaired ==
  /\ last.op = "init" => Len(getRoadIslands(grid)) = 2
  /\ last.op = "connectRoads" => validateRoadConnectivity(grid).connected

\* The first connectRoads call on two segments has returned: it found 2 islands,
\* placed bridge tiles, and the network is connected.
C4_Witness ==
  /\ last.op = "connectRoads"
  /\ last.result.previousIslandCount = 2
  /\ last.result.tilesPlaced >= 2
  /\ last.result.finalIslandCount = 1
  /\ Cardinality(RoadCells(grid)) = 2 * SegmentLen + last.result.tilesPlaced

\* C5: connectRoads never overwrites a road tile except by upgrading it: a cell
\* that held a road tile before the call holds one after it, the connects set
\* of its tile is a superset of the one before, and its id is unchanged when
\* no direction was added.
C5_RepairOnlyUpgrades ==
  [][last'.op = "connectRoads" =>
       \A p \in RoadCells(grid) :
         /\ p \in RoadCells(grid')
         /\ ConnectsAt(grid, p) \subseteq ConnectsAt(grid', p)
         /\ (ConnectsAt(grid', p) = ConnectsAt(grid, p)
               => grid'.ground[p].assetId = grid.ground[p].assetId)]_vars

\* A connectRoads call has returned that placed a bridge tile and upgraded a
\* road tile that was there before (a straight tile became the T-junction).
C5_Witness ==
  /\ last.op = "connectRoads"
  /\ ~last.result.alreadyConnected
  /\ last.result.tilesPlaced > 0
  /\ last.result.tilesUpdated > 0
  /\ \E p \in RoadCells(grid) : grid.ground[p].assetId = "road_sew"

\* C6: whenever a connectRoads call returns with more than one island
\* remaining, no further progress was possible: an immediately repeated
\* connectRoads call writes no cell and leaves the island count the same.
C6_RepairNoFurtherProgress ==
  [][(/\ last.op = "connectRoads"
      /\ last.result.finalIslandCount > 1
      /\ last'.op = "connectRoads")
     => (/\ grid' = grid
         /\ last'.result.finalIslandCount = last.result.finalIslandCount)]_vars

\* C7: connectRoads returns (it does not throw) and its reported success equals
\* the connected flag of the grid as it is when the call returns.
C7_SuccessIsFinalConnected ==
  last.op = "connectRoads" =>
    /\ last.result.error = ""
    /\ last.result.success = NetworkConnected(grid)
    /\ last.result.finalIslandCount = ComponentCount(RoadCells(grid))

\* A connectRoads call has returned failure: it tried to bridge, a bridge cell
\* was not resolved, and more than one island remains.
C7_Witness ==
  /\ last.op = "connectRoads"
  /\ ~last.result.success
  /\ Len(last.result.errors) > 0
  /\ ComponentCount(RoadCells(grid)) > 1

\* C8: a setTile call that fails, because the coordinates are outside the grid
\* or because the id is absent from the catalog, leaves every cell of both
\* layers as it was.
C8_FailedSetTileChangesNothing ==
  [][(/\ last'.op = "setTile"
      /\ (~InBounds(grid, last'.x, last'.y) \/ last'.id \notin CatalogIds(grid)))
     => (/\ ~last'.result.success
         /\ grid' = grid)]_vars

\* A setTile call with an absent id on an in-bounds cell of a grid that holds
\* tiles has failed.
C8_Witness ==
  /\ last.op = "setTile"
  /\ last.id = MissingId
  /\ InBounds(grid, last.x, last.y)
  /\ last.result.error = "UnknownSprite"
  /\ \E p \in Positions(grid.width, grid.height) : grid.ground[p] # NoCell

\* C9: setTile at (-1, 0) or (width, 0) fails with the out-of-bounds error for
\* every id and layer, ids absent from the catalog included.
C9_OutOfBoundsWins ==
  (/\ last.op = "setTile"
   /\ last.y = 0
   /\ last.x \in {-1, grid.width})
  => last.result.error = "OutOfBounds"

\* C10: after a successful setTile(x, y, id, layer), getTile(x, y, layer) is the
\* cell with that id and layer, whatever was there before, and no other cell of
\* either layer has changed, also when the footprint of the tile is larger
\* than 1x1.
C10_WriteReadLastWins ==
  [][(/\ last'.op = "setTile"
      /\ InBounds(grid, last'.x, last'.y)
      /\ last'.id \in CatalogIds(grid))
     => (/\ last'.result.success
         /\ getTile(grid', last'.x, last'.y, last'.layer)
              = [assetId |-> last'.id, layer |-> last'.layer]
         /\ \A p \in Positions(grid.width, grid.height), l \in Layers :
              (p # <<last'.x, last'.y>> \/ l # last'.layer)
                => getTile(grid', p[1], p[2], l) = getTile(grid, p[1], p[2], l))]_vars

\* setTile has written the 2x2 building at (0, 0) of the object layer; the other
\* cells of its footprint are still empty.
C10_Witness ==
  /\ last.op = "setTile"
  /\ last.result.success
  /\ last.id = "building_0"
  /\ last.layer = "object"
  /\ <<last.x, last.y>> = <<0, 0>>
  /\ grid.objects[<<0, 0>>] = [assetId |-> "building_0", layer |-> "object"]
  /\ grid.objects[<<1, 1>>] = NoCell
  /\ grid.objects[<<1, 0>>] = NoCell

\* C11: in every state reached from a fresh grid by setTile, clearTile and the
\* tools, the id of every non-empty cell resolves in the catalog and the layer
\* tag of the cell is the layer it is stored in.
C11_CellsResolveAndTagged ==
  \A p \in Positions(grid.width, grid.height) :
    /\ grid.ground[p] # NoCell =>
         (getSprite(grid, grid.ground[p].assetId) # NoSprite /\ grid.ground[p].layer = "ground")
    /\ grid.objects[p] # NoCell =>
         (getSprite(grid, grid.objects[p].assetId) # NoSprite /\ grid.objects[p].layer = "object")

\* setTile has stored a ground-category tile in the object layer, over a cell
\* whose ground layer holds a tile too.
C11_Witness ==
  /\ last.op = "setTile"
  /\ last.result.success
  /\ last.layer = "object"
  /\ getSprite(grid, last.id).layer = "ground"
  /\ grid.objects[<<last.x, last.y>>] = [assetId |-> last.id, layer |-> "object"]
  /\ grid.ground[<<last.x, last.y>>] # NoCell

\* The layer a placement is made on: the layer argument, or the layer of the
\* sprite when the argument is omitted ("").
TargetLayer(g, assetId, layer) == IF layer = "" THEN getSprite(g, assetId).layer ELSE layer

\* Does the placement of assetId at (x, y) on `layer` ask for an object over a
\* cell of g that has no ground?
ObjectOverVoid(g, x, y, assetId, layer) ==
  /\ InBounds(g, x, y)
  /\ getSprite(g, assetId) # NoSprite
  /\ TargetLayer(g, assetId, layer) = "object"
  /\ g.ground[<<x, y>>] = NoCell

\* C20: in every state reached from an empty grid by the tools, every non-empty
\* object cell has a non-empty ground cell under it; and an object placement
\* (placeAsset, or the first placement of placeAssets) onto a cell with empty
\* ground is rejected and changes nothing.
C20_NoObjectOverVoid ==
  /\ [](\A p \in Positions(grid.width, grid.height) :
          grid.objects[p] # NoCell => grid.ground[p] # NoCell)
  /\ [][/\ (last'.op = "placeAsset"
            /\ ObjectOverVoid(grid, last'.x, last'.y, last'.id, last'.layer))
           => (~last'.result.success /\ grid' = grid)
        /\ (last'.op = "placeAssets" /\ Len(last'.result.results) > 0
            /\ ObjectOverVoid(grid, last'.result.results[1].x, last'.result.results[1].y,
                              last'.result.results[1].assetId,
                              last'.result.results[1].layer))
           => (/\ ~last'.result.results[1].success
               /\ ~last'.result.success
               /\ (Len(last'.result.results) = 1 => grid' = grid))]_vars

\* An object stands on a ground tile, and a placeAsset call that asked for an
\* object on a cell without ground has been rejected.
C20_Witness ==
  /\ last.op = "placeAsset"
  /\ last.result.error = "NoGround"
  /\ grid.ground[<<last.x, last.y>>] = NoCell
  /\ \E p \in Positions(grid.width, grid.height) :
       grid.objects[p] # NoCell /\ grid.ground[p] # NoCell

\* The indices of the catalog entries of g that findMatchingRoadSprite may
\* return for the directions: ground category, a road type, the same set.
Eligible(g, connections) ==
  {i \in 1 .. Len(g.metadata) :
     /\ g.metadata[i].category = "ground"
     /\ g.metadata[i].type \in {"path", "corner", "intersection", "cap"}
     /\ Range(g.metadata[i].connects) = Range(connections)
     /\ Cardinality(Range(g.metadata[i].connects)) = Cardinality(Range(connections))}

\* C12: findMatchingRoadSprite returns the first catalog entry, in catalog
\* order, with category ground, a road type and a connects set equal to the
\* required set, and nothing when there is no such entry (so never an entry
\* whose connects are a strict subset or superset of the required set).
C12_FirstExactMatch ==
  last.op = "findMatchingRoadSprite" =>
    IF Eligible(grid, last.connections) = {}
      THEN last.sprite = NoSprite
      ELSE last.sprite = grid.metadata[Min(Eligible(grid, last.connections))]

\* The second entry is returned, past a first entry of the road kind whose
\* connects are a strict superset of the required directions.
C12_Witness ==
  /\ last.op = "findMatchingRoadSprite"
  /\ last.sprite = grid.metadata[2]
  /\ grid.metadata[1].category = "ground"
  /\ grid.metadata[1].type = "path"
  /\ Range(last.connections) # Range(grid.metadata[1].connects)
  /\ Range(last.connections) \subseteq Range(grid.metadata[1].connects)

\* The connects of the sprite of the ground tile of g at p, as a set.
ConnectsSet(g, p) == Range(getSprite(g, g.ground[p].assetId).connects)

\* C13: with the built-in catalog, when the east-west path tile is at (2,2)
\* and the upgrade with new direction north is made for that cell, the cell
\* then holds a tile whose connects are exactly east, west and north.
C13_UpgradeYieldsTJunction ==
  [][(/\ grid.ground[<<2, 2>>] # NoCell
      /\ grid.ground[<<2, 2>>].assetId = "road_ew"
      /\ last'.op = "updateAdjacentRoad"
      /\ last'.x = 2 /\ last'.y = 2 /\ last'.newConnection = "north")
     => (/\ grid'.ground[<<2, 2>>] # NoCell
         /\ ConnectsSet(grid', <<2, 2>>) = {"east", "west", "north"})]_vars

\* The cells of either layer on which the grids g and h differ.
ChangedCells(g, h) ==
  {<<l, p>> \in Layers \X Positions(g.width, g.height) :
     IF l = "ground" THEN g.ground[p] # h.ground[p] ELSE g.objects[p] # h.objects[p]}

\* C14: updateAdjacentRoad either leaves the grid unchanged (and reports no
\* upgrade) or replaces the tile of exactly one road cell, the cell it was
\* given, by a tile whose connects are the old connects plus the new
\* direction; when the tile already has the new direction nothing changes and
\* no upgrade is reported; and the same call made once more changes nothing.
C14_UpgradeAddsOneDirection ==
  [][/\ last'.op = "updateAdjacentRoad" =>
          \/ grid' = grid /\ ~last'.updated
          \/ /\ last'.updated
             /\ ChangedCells(grid, grid') = {<<"ground", <<last'.x, last'.y>>>>}
             /\ isRoadAt(grid, last'.x, last'.y)
             /\ grid'.ground[<<last'.x, last'.y>>] # NoCell
             /\ ConnectsSet(grid', <<last'.x, last'.y>>)
                  = ConnectsSet(grid, <<last'.x, last'.y>>) \cup {last'.newConnection}
     /\ (/\ last'.op = "updateAdjacentRoad"
         /\ isRoadAt(grid, last'.x, last'.y)
         /\ last'.newConnection \in ConnectsSet(grid, <<last'.x, last'.y>>))
        => (grid' = grid /\ ~last'.updated)
     /\ last'.op = "updateAdjacentRoadAgain" => (grid' = grid /\ ~last'.updated)]_vars

\* An upgrade has replaced a straight road by the T-junction, and the same
\* call made again has left it alone.
C14_Witness ==
  /\ last.op = "updateAdjacentRoadAgain"
  /\ last.newConnection = "south"
  /\ InBounds(grid, last.x, last.y)
  /\ grid.ground[<<last.x, last.y>>] = [assetId |-> "road_sew", layer |-> "ground"]
  /\ \E p \in Positions(grid.width, grid.height) :
       grid.ground[p] = [assetId |-> "road_ew", layer |-> "ground"]

\* C15: for endpoints inside the grid, the path of generateManhattanPath
\* starts at (fromX, fromY), ends at (toX, toY), has |toX - fromX| +
\* |toY - fromY| + 1 points without repeats, has consecutive points 4-adjacent,
\* stays inside the grid, and runs along row fromY to column toX and only then
\* along column toX to row toY (one bend, at (toX, fromY)).  The path is a
\* function of the four arguments alone: the same inputs give the same path.
C15_ManhattanPath ==
  last.op = "generateManhattanPath" =>
    LET path == last.path
        dx == Abs(last.x2 - last.x)
        dy == Abs(last.y2 - last.y)
    IN /\ Len(path) = dx + dy + 1
       /\ path[1] = <<last.x, last.y>>
       /\ path[Len(path)] = <<last.x2, last.y2>>
       /\ Cardinality(Range(path)) = Len(path)
       /\ \A i \in 1 .. Len(path) - 1 : Adjacent4(path[i], path[i + 1])
       /\ Range(path) \subseteq Positions(grid.width, grid.height)
       /\ \A i \in 1 .. Len(path) :
            /\ i <= dx + 1 => path[i][2] = last.y
            /\ i >= dx + 1 => path[i][1] = last.x2
       /\ path = generateManhattanPath(last.x, last.y, last.x2, last.y2)

\* A path with a horizontal leg, a bend and a vertical leg.
C15_Witness ==
  /\ last.op = "generateManhattanPath"
  /\ Abs(last.x2 - last.x) >= 2
  /\ Abs(last.y2 - last.y) >= 2
  /\ last.path[Abs(last.x2 - last.x) + 1] = <<last.x2, last.y>>

\* The loop state of drawRoad before route point n is handled.
RECURSIVE DrawRoadUpTo(_, _, _, _)
DrawRoadUpTo(st, path, i, n) ==
  IF i >= n THEN st ELSE DrawRoadUpTo(DrawRoadStep(st, path, i), path, i + 1, n)

\* The grid on which route point n of a drawRoad call on g is resolved.
GridBefore(g, tr, path, n) ==
  DrawRoadUpTo([grid |-> g, roadTiles |-> tr.roadTiles, tilesPlaced |-> 0,
                tilesUpdated |-> 0, errors |-> <<>>], path, 1, n).grid

\* Has the catalog a road tile for route point n at the time it is handled?
Resolvable(g, tr, path, n) ==
  findMatchingRoadSprite(GridBefore(g, tr, path, n),
                         AllConnections(GridBefore(g, tr, path, n), path, n)) # NoSprite

\* The route of the drawRoad call recorded in the record c.
RouteOf(c) == generateManhattanPath(c.x, c.y, c.x2, c.y2)

\* C16: an accepted drawRoad call handles every route cell: a cell for which
\* the catalog has a matching road tile is written (it holds a road tile and
\* is tracked afterwards), also after an earlier cell had none; a cell
\* without one gives exactly one error entry; tilesPlaced plus the number of
\* error entries is the route length; success is true exactly when there is
\* no error entry.
C16_DrawRoadNeverAborts ==
  [][(last'.op = "drawRoad" /\ last'.result.error = "") =>
       LET path == RouteOf(last')
           errors == last'.result.errors
       IN /\ last'.result.tilesPlaced + Len(errors) = Len(path)
          /\ last'.result.success = (Len(errors) = 0)
          /\ \A n \in 1 .. Len(path) :
               IF Resolvable(grid, tracker, path, n)
                 THEN /\ ~Includes(errors, path[n])
                      /\ isRoadAt(grid', path[n][1], path[n][2])
                      /\ path[n] \in tracker'.roadTiles
                 ELSE Cardinality({k \in 1 .. Len(errors) : errors[k] = path[n]}) = 1]_vars

\* The first route cell had no sprite and a later route cell was written.
C16_Witness ==
  /\ last.op = "drawRoad"
  /\ last.result.error = ""
  /\ Len(last.result.errors) > 0
  /\ last.result.errors[1] = <<last.x, last.y>>
  /\ last.result.tilesPlaced > 0
  /\ ~last.result.success

\* C17: a rejected drawRoad call (an endpoint out of bounds, both endpoints
\* disconnected from the tracked network, or a route longer than the remaining
\* budget) changes nothing: both layers of the grid, the budget counter and the
\* tracked road set are as before.
C17_RejectedDrawRoadNoEffect ==
  [][(last'.op = "drawRoad"
      /\ last'.result.error \in {"OutOfBounds", "Disconnected", "Budget"})
     => (/\ grid'.ground = grid.ground
         /\ grid'.objects = grid.objects
         /\ tracker'.tilesPlaced = tracker.tilesPlaced
         /\ tracker'.roadTiles = tracker.roadTiles
         /\ ~last'.result.success)]_vars

\* A route longer than the remaining budget was rejected on a grid that holds roads.
C17_Witness ==
  /\ last.op = "drawRoad"
  /\ last.result.error = "Budget"
  /\ tracker.tilesPlaced > 0
  /\ tracker.roadTiles # {}
  /\ Len(RouteOf(last)) > tracker.maxTiles - tracker.tilesPlaced

\* The ground cells of g whose tile has a road connectivity type.
RoadSet(g) ==
  {p \in Positions(g.width, g.height) :
     /\ g.ground[p] # NoCell
     /\ getSprite(g, g.ground[p].assetId) # NoSprite
     /\ getSprite(g, g.ground[p].assetId).type \in {"path", "corner", "intersection", "cap"}}

\* C18: the islands of getRoadIslands are the maximal 4-connected components
\* of the road positions: every road cell is in exactly one island (once), no
\* island holds a non-road cell, the cells of an island are linked by chains of
\* 4-adjacent road cells, and no two islands hold 4-adjacent cells.  Diagonal
\* contact alone does not join two cells, and two road tiles on 4-adjacent
\* cells of an otherwise road-free grid make one island.
C18_IslandsAreComponents ==
  last.op = "getRoadIslands" =>
    LET islands == last.islands
        R == RoadSet(grid)
    IN /\ \A p \in R :
            Cardinality({<<i, k>> \in UNION {{i} \X (1 .. Len(islands[i].tiles)) :
                                               i \in 1 .. Len(islands)} :
                           islands[i].tiles[k] = p}) = 1
       /\ \A i \in 1 .. Len(islands) :
            /\ Len(islands[i].tiles) > 0
            /\ Range(islands[i].tiles) \subseteq R
            /\ Reach({islands[i].tiles[1]}, Range(islands[i].tiles)) = Range(islands[i].tiles)
       /\ \A i \in 1 .. Len(islands), j \in 1 .. Len(islands) :
            i # j => \A p \in Range(islands[i].tiles), q \in Range(islands[j].tiles) :
                       ~Adjacent4(p, q)
       /\ \A p \in R, q \in R :
            R = {p, q} /\ p # q =>
              Len(islands) = IF Adjacent4(p, q) THEN 1 ELSE 2

\* Three road cells: two 4-adjacent cells make one island and a cell that
\* touches them only diagonally makes another.
C18_Witness ==
  /\ last.op = "getRoadIslands"
  /\ Len(last.islands) = 2
  /\ \E i \in 1 .. 2 : Len(last.islands[i].tiles) = 2
  /\ \E p \in RoadSet(grid), q \in RoadSet(grid) :
       /\ Abs(p[1] - q[1]) = 1 /\ Abs(p[2] - q[2]) = 1
       /\ \E i \in 1 .. 2 : p \in Range(last.islands[i].tiles) /\ q \notin Range(last.islands[i].tiles)

\* C19: validateRoadConnectivity reports connected exactly when islandCount is
\* at most 1 (no road tile: islandCount 0 and connected), totalRoadTiles equal
\* to the number of road cells on the ground layer, islandCount equal to the
\* number of islands, and for every island the bounding box of its cells.
C19_ValidateReport ==
  last.op = "validateRoadConnectivity" =>
    LET r == last.result
        R == RoadSet(grid)
    IN /\ r.connected = (r.islandCount <= 1)
       /\ R = {} => (r.islandCount = 0 /\ r.connected)
       /\ r.totalRoadTiles = Cardinality(R)
       /\ r.islandCount = Len(r.islands)
       /\ r.islandCount = ComponentCount(R)
       /\ \A i \in 1 .. Len(r.islands) :
            LET T == Range(r.islands[i].tiles)
                b == r.islands[i].bounds
            IN /\ \E p \in T : p[1] = b.minX
               /\ \E p \in T : p[1] = b.maxX
               /\ \E p \in T : p[2] = b.minY
               /\ \E p \in T : p[2] = b.maxY
               /\ \A p \in T : b.minX <= p[1] /\ p[1] <= b.maxX
                               /\ b.minY <= p[2] /\ p[2] <= b.maxY

\* Two islands are reported, not connected, one of them with a box wider than a cell.
C19_Witness ==
  /\ last.op = "validateRoadConnectivity"
  /\ ~last.result.connected
  /\ last.result.islandCount = 2
  /\ last.result.totalRoadTiles = 3
  /\ \E i \in 1 .. 2 : last.result.islands[i].bounds.minX < last.result.islands[i].bounds.maxX

\* C21: in the composite list renderMap builds, every patch made from the
\* ground layer comes before every patch made from the object layer, whatever
\* the map and the layer selection; and each patch is positioned at
\* (x * scaledTileSize, y * scaledTileSize) of a cell of its layer that holds
\* the tile of the patch when processLayer reads the map, one patch per such
\* cell.
C21_GroundBeforeObjects ==
  last.op = "renderMap" =>
    LET all == last.result.composites
        sized == Round(last.tileSize * last.scale[1], last.scale[2])
        CellOf(k) == IF all[k].of = "ground"
                       THEN last.composited.ground[<<all[k].left \div sized, all[k].top \div sized>>]
                       ELSE last.composited.objects[<<all[k].left \div sized, all[k].top \div sized>>]
    IN /\ \A i \in 1 .. Len(all), j \in 1 .. Len(all) :
            (all[i].of = "ground" /\ all[j].of = "objects") => i < j
       /\ sized > 0
       /\ \A k \in 1 .. Len(all) :
            /\ all[k].left % sized = 0 /\ all[k].top % sized = 0
            /\ <<all[k].left \div sized, all[k].top \div sized>>
                 \in Positions(last.composited.width, last.composited.height)
            /\ CellOf(k).assetId = all[k].input.assetId
       /\ \A i \in 1 .. Len(all), j \in 1 .. Len(all) :
            (i # j /\ all[i].of = all[j].of) =>
              <<all[i].left, all[i].top>> # <<all[j].left, all[j].top>>

\* Both layers were selected, objects named first, and the list holds a
\* ground patch followed by an object patch.
C21_Witness ==
  /\ last.op = "renderMap"
  /\ last.layers = <<"objects", "ground">>
  /\ Len(last.result.composites) = 2
  /\ last.result.composites[1].of = "ground"
  /\ last.result.composites[2].of = "objects"
  /\ last.result.composites[2].left > 0

\* The cells of either layer of g that hold the id.
CellsHolding(g, id) ==
  {<<l, p>> \in Layers \X Positions(g.width, g.height) :
     IF l = "ground" THEN g.ground[p].assetId = id ELSE g.objects[p].assetId = id}

\* The cells of the layers selected by the option that hold the id in g.
SelectedCellsHolding(g, layers, id) ==
  {c \in CellsHolding(g, id) :
     \/ c[1] = "ground" /\ Includes(layers, "ground")
     \/ c[1] = "object" /\ Includes(layers, "objects")}

\* The cell a patch of the composite list was made for.
PatchCell(patch, sized) ==
  <<IF patch.of = "ground" THEN "ground" ELSE "object",
    <<patch.left \div sized, patch.top \div sized>>>>

\* C22: in one renderMap call extractSprite is invoked exactly once for each
\* catalog id that occurs in the map as buildSpriteCache reads it (on either
\* layer, in however many cells) and for no other id; and every cell of a
\* selected layer that holds such an id when the composites are built gets a
\* patch, which is the one buffer of that invocation.
C22_ExtractOncePerId ==
  last.op = "renderMap" =>
    LET calls == last.result.calls
        all == last.result.composites
        sized == Round(last.tileSize * last.scale[1], last.scale[2])
    IN /\ \A id \in CatalogIds(grid) :
            Cardinality({k \in 1 .. Len(calls) : calls[k] = id})
              = IF CellsHolding(last.before, id) # {} THEN 1 ELSE 0
       /\ Range(calls) \subseteq CatalogIds(grid)
       /\ \A i \in 1 .. Len(all), j \in 1 .. Len(all) :
            all[i].input.assetId = all[j].input.assetId => all[i].input = all[j].input
       /\ \A i \in 1 .. Len(all) :
            /\ all[i].input.call \in 1 .. Len(calls)
            /\ calls[all[i].input.call] = all[i].input.assetId
       /\ \A id \in Range(calls) :
            SelectedCellsHolding(last.composited, last.layers, id)
              = {PatchCell(all[i], sized) : i \in {k \in 1 .. Len(all) : all[k].input.assetId = id}}
       /\ last.result.stats.uniqueSpritesUsed = Len(calls)

\* Two cells hold the same catalog id when the call begins and when the composites are built:
\* one extraction, two patches of one buffer.
C22_Witness ==
  /\ last.op = "renderMap"
  /\ Len(last.result.calls) = 1
  /\ Len(last.result.composites) = 2
  /\ last.result.composites[1].input = last.result.composites[2].input
  /\ Cardinality(CellsHolding(last.before, last.result.calls[1])) = 2
  /\ Cardinality(CellsHolding(last.composited, last.result.calls[1])) = 2

\* C23: a grid of the same width, height and catalog rebuilt from the
\* structure toJSON returns, by writing each non-empty cell back with setTile
\* on its layer, has on both layers the cells of the original.
C23_JsonRoundTrip ==
  last.op = "toJSON" =>
    /\ last.rebuilt.width = grid.width
    /\ last.rebuilt.height = grid.height
    /\ \A p \in Positions(grid.width, grid.height) :
         /\ last.rebuilt.ground[p] = grid.ground[p]
         /\ last.rebuilt.objects[p] = grid.objects[p]

\* The grid holds a ground tile and an object tile on different cells.
C23_Witness ==
  /\ last.op = "toJSON"
  /\ \E p \in Positions(grid.width, grid.height), q \in Positions(grid.width, grid.height) :
       /\ p # q
       /\ grid.ground[p] # NoCell /\ grid.objects[q] # NoCell
       /\ grid.ground[q] = NoCell /\ grid.objects[p] = NoCell
       /\ last.rebuilt.ground[p] = grid.ground[p]
       /\ last.rebuilt.objects[q] = grid.objects[q]

\* The cells of the region (x1, y1)-(x2, y2), corners in any order, that lie in g.
ClampedRegion(g, x1, y1, x2, y2) ==
  {p \in Positions(g.width, g.height) :
     /\ (x1 <= p[1] /\ p[1] <= x2) \/ (x2 <= p[1] /\ p[1] <= x1)
     /\ (y1 <= p[2] /\ p[2] <= y2) \/ (y2 <= p[2] /\ p[2] <= y1)}

\* C24: a fillGround call with a ground tile id and overwrite false or
\* omitted changes no ground cell that held a tile before the call, writes the
\* given tile to exactly the empty ground cells of the region clamped to the
\* grid, and changes no cell of the object layer.
C24_FillPreservesGround ==
  [][(/\ last'.op = "fillGround"
      /\ last'.layer = ""
      /\ getSprite(grid, last'.id) # NoSprite
      /\ getSprite(grid, last'.id).category = "ground")
     => (/\ \A p \in Positions(grid.width, grid.height) :
              grid'.ground[p] =
                IF grid.ground[p] = NoCell
                   /\ p \in ClampedRegion(grid, last'.x, last'.y, last'.x2, last'.y2)
                  THEN [assetId |-> last'.id, layer |-> "ground"]
                  ELSE grid.ground[p]
         /\ grid'.objects = grid.objects
         /\ last'.result.success)]_vars

\* A fill over the whole grid has kept a road tile and written plain ground
\* around it, under an object that is still there.
C24_Witness ==
  /\ last.op = "fillGround"
  /\ last.layer = ""
  /\ last.id = "ground_0"
  /\ last.result.tilesSkipped = 1
  /\ last.result.tilesPlaced = grid.width * grid.height - 1
  /\ \E p \in Positions(grid.width, grid.height) : grid.ground[p].assetId = "road_ew"
  /\ \E p \in Positions(grid.width, grid.height) : grid.objects[p] # NoCell

\* The neighbour of p in the direction dir.
NeighborOf(p, dir) == <<p[1] + DIRECTION_OFFSETS(dir).dx, p[2] + DIRECTION_OFFSETS(dir).dy>>

\* C25: after a successful placeRoad at (x, y), for each neighbour inside the
\* grid that holds a road tile, the placed sprite connects toward the
\* neighbour exactly when the tile of the neighbour connects back toward (x, y).
C25_PlacedRoadMatchesNeighbors ==
  [][(last'.op = "placeRoad" /\ last'.result.success) =>
       \A dir \in Range(DIRECTION_ORDER) :
         LET q == NeighborOf(<<last'.x, last'.y>>, dir)
         IN q \in RoadSet(grid') =>
              (dir \in ConnectsSet(grid', <<last'.x, last'.y>>)
                 <=> OPPOSITE_DIRECTION(dir) \in ConnectsSet(grid', q))]_vars

\* Some neighbour of (x, y) inside g holds a road tile that connects toward
\* (x, y) while the sprite does not connect toward it.
NeighborUnanswered(g, x, y, sprite) ==
  \E dir \in Range(DIRECTION_ORDER) :
    /\ NeighborOf(<<x, y>>, dir) \in RoadSet(g)
    /\ OPPOSITE_DIRECTION(dir) \in ConnectsSet(g, NeighborOf(<<x, y>>, dir))
    /\ dir \notin Range(sprite.connects)

\* C29: placeRoad is rejected, with every cell and the budget counter as
\* before, whenever a neighbour inside the grid holds a road tile that connects
\* toward (x, y) and the requested sprite does not connect toward it; and
\* likewise for coordinates outside the grid, an unknown sprite id, a sprite
\* that is not a road, or an exhausted budget.
C29_PlaceRoadRejections ==
  [][(/\ last'.op = "placeRoad"
      /\ \/ ~InBounds(grid, last'.x, last'.y)
         \/ getSprite(grid, last'.id) = NoSprite
         \/ ~isRoadSprite(getSprite(grid, last'.id))
         \/ roadBudget.tilesPlaced >= roadBudget.maxTiles
         \/ NeighborUnanswered(grid, last'.x, last'.y, getSprite(grid, last'.id)))
     => (/\ ~last'.result.success
         /\ last'.result.error # ""
         /\ grid'.ground = grid.ground
         /\ grid'.objects = grid.objects
         /\ roadBudget' = roadBudget)]_vars

\* A road sprite inside the grid and within the budget was rejected because a
\* neighbouring road connects toward the cell and the sprite does not answer.
C29_Witness ==
  /\ last.op = "placeRoad"
  /\ last.result.error = "ConnectivityMismatch"
  /\ roadBudget.tilesPlaced < roadBudget.maxTiles
  /\ NeighborUnanswered(grid, last.x, last.y, getSprite(grid, last.id))
  /\ grid.ground[<<last.x, last.y>>] = NoCell

\* C26: clearTile with coordinates outside the grid changes nothing; with
\* coordinates inside the grid it makes exactly the addressed cell of the
\* addressed layer empty, so that getTile returns the empty value, and leaves
\* every other cell of both layers as it was.
C26_ClearTileFrame ==
  [][last'.op = "clearTile" =>
       IF ~InBounds(grid, last'.x, last'.y)
         THEN grid' = grid
         ELSE /\ getTile(grid', last'.x, last'.y, last'.layer) = NoCell
              /\ \A p \in Positions(grid.width, grid.height), layer \in Layers :
                   (p # <<last'.x, last'.y>> \/ layer # last'.layer) =>
                     getTile(grid', p[1], p[2], layer) = getTile(grid, p[1], p[2], layer)
              /\ grid'.width = grid.width /\ grid'.height = grid.height
              /\ grid'.metadata = grid.metadata]_vars

\* A cell inside the grid was cleared on one layer while the same cell of the
\* other layer holds a tile.
C26_Witness ==
  /\ last.op = "clearTile"
  /\ InBounds(grid, last.x, last.y)
  /\ getTile(grid, last.x, last.y, last.layer) = NoCell
  /\ \E layer \in Layers \ {last.layer} : getTile(grid, last.x, last.y, layer) # NoCell

\* P: the directions from route point n to its predecessor and its successor.
RouteDirections(path, n) ==
  {dir \in Range(DIRECTION_ORDER) :
     \E k \in {n - 1, n + 1} \cap (1 .. Len(path)) : NeighborOf(path[n], dir) = path[k]}

\* A: the directions in which the neighbour of p inside g holds a road tile
\* whose connects contain the opposite direction.
AnsweringDirections(g, p) ==
  {dir \in Range(DIRECTION_ORDER) :
     /\ NeighborOf(p, dir) \in RoadSet(g)
     /\ OPPOSITE_DIRECTION(dir) \in ConnectsSet(g, NeighborOf(p, dir))}

\* The connects a written route point n must get on the grid g it is resolved on.
ExpectedConnects(g, path, n) ==
  IF RouteDirections(path, n) \cup AnsweringDirections(g, path[n]) = {}
    THEN {"east", "west"}
    ELSE RouteDirections(path, n) \cup AnsweringDirections(g, path[n])

\* C27: every cell that drawRoad writes at route index n receives a road tile
\* whose connects are exactly P \cup A, with P the directions to the route
\* predecessor and successor and A the directions of the neighbouring roads
\* that, at the moment of the write, connect toward the cell; east and west
\* when P \cup A is empty.
C27_WrittenTileConnects ==
  [][(last'.op = "drawRoad" /\ last'.result.error = "") =>
       LET path == RouteOf(last')
       IN \A n \in 1 .. Len(path) :
            ~Includes(last'.result.errors, path[n]) =>
              /\ path[n] \in RoadSet(GridBefore(grid, tracker, path, n + 1))
              /\ ConnectsSet(GridBefore(grid, tracker, path, n + 1), path[n])
                   = ExpectedConnects(GridBefore(grid, tracker, path, n), path, n)]_vars

\* The last route cell of a drawRoad call was written with a tile that also
\* connects toward a road that was there before and is not on the route.
C27_Witness ==
  /\ last.op = "drawRoad"
  /\ last.result.error = ""
  /\ last.result.tilesPlaced > 0
  /\ ~Includes(last.result.errors, <<last.x2, last.y2>>)
  /\ <<last.x2, last.y2>> \in RoadSet(grid)
  /\ \E dir \in ConnectsSet(grid, <<last.x2, last.y2>>) :
       /\ dir \notin RouteDirections(RouteOf(last), Len(RouteOf(last)))
       /\ NeighborOf(<<last.x2, last.y2>>, dir) \in RoadSet(grid)
       /\ NeighborOf(<<last.x2, last.y2>>, dir) \notin Range(RouteOf(last))

\* The Manhattan distance of two tiles.
Manhattan(a, b) ==
  (IF a[1] < b[1] THEN b[1] - a[1] ELSE a[1] - b[1])
  + (IF a[2] < b[2] THEN b[2] - a[2] ELSE a[2] - b[2])

\* C28: for two non-empty islands findNearestTilesBetweenIslands returns a pair
\* (from in the first island, to in the second) whose Manhattan distance is the
\* minimum over all cross-island pairs, and among the pairs at that distance
\* the first one met when the first island is scanned in the outer loop and the
\* second in the inner loop.
C28_NearestPair ==
  last.op = "findNearestTilesBetweenIslands" =>
    \E i \in 1 .. Len(last.island1), j \in 1 .. Len(last.island2) :
      /\ last.result.from = last.island1[i]
      /\ last.result.to = last.island2[j]
      /\ last.result.distance = Manhattan(last.island1[i], last.island2[j])
      /\ \A a \in 1 .. Len(last.island1), b \in 1 .. Len(last.island2) :
           /\ Manhattan(last.island1[a], last.island2[b]) >= last.result.distance
           /\ (Manhattan(last.island1[a], last.island2[b]) = last.result.distance
                 => (a > i \/ (a = i /\ b >= j)))

\* Two pairs are at the minimum distance, one of them with the last tile of
\* each island, and the answer is a pair met earlier.
C28_Witness ==
  /\ last.op = "findNearestTilesBetweenIslands"
  /\ Len(last.island1) > 1
  /\ Len(last.island2) > 1
  /\ Manhattan(last.island1[Len(last.island1)], last.island2[Len(last.island2)])
       = last.result.distance
  /\ last.result.from = last.island1[1]
  /\ last.result.to # last.island2[Len(last.island2)]

\* The cells of g that hold a tile on the ground layer.
GroundCells(g) == {p \in Positions(g.width, g.height) : g.ground[p] # NoCell}

\* C30: a road tool never places more tiles than its maxRoadTiles. After any
\* sequence of drawRoad calls tilesPlaced is at most maxTiles and the distinct
\* cells written are at most tilesPlaced; a drawRoad call whose route is longer
\* than the remaining budget is rejected before any write; and placeRoad
\* succeeds only while fewer than maxRoadTiles calls have succeeded, each
\* success counting once.
C30_BudgetNeverExceeded ==
  /\ [](/\ tracker.tilesPlaced <= tracker.maxTiles
        /\ roadBudget.tilesPlaced <= roadBudget.maxTiles
        /\ Cardinality(tracker.roadTiles) <= tracker.tilesPlaced
        /\ (last.op \in {"init", "drawRoad"} =>
              Cardinality(GroundCells(grid)) <= tracker.tilesPlaced))
  /\ [][/\ (/\ last'.op = "drawRoad"
            /\ InBounds(grid, last'.x, last'.y)
            /\ InBounds(grid, last'.x2, last'.y2)
            /\ Len(RouteOf(last')) > tracker.maxTiles - tracker.tilesPlaced)
           => (/\ ~last'.result.success
               /\ last'.result.error # ""
               /\ grid' = grid
               /\ tracker' = tracker)
        /\ last'.op = "drawRoad" =>
             tracker'.tilesPlaced = tracker.tilesPlaced + last'.result.tilesPlaced
        /\ last'.op = "placeRoad" =>
             IF last'.result.success
               THEN /\ roadBudget.tilesPlaced < roadBudget.maxTiles
                    /\ roadBudget'.tilesPlaced = roadBudget.tilesPlaced + 1
               ELSE roadBudget'.tilesPlaced = roadBudget.tilesPlaced]_vars

\* drawRoad has used its whole budget, part of it on a cell it had written
\* before, and a further route inside the grid was rejected for the budget.
C30_Witness ==
  /\ last.op = "drawRoad"
  /\ last.result.error = "Budget"
  /\ tracker.tilesPlaced = tracker.maxTiles
  /\ tracker.roadTiles # {}
  /\ Cardinality(tracker.roadTiles) < tracker.tilesPlaced
  /\ Cardinality(GroundCells(grid)) = Cardinality(tracker.roadTiles)

\* The catalog ids that the cells of the layers selected by the option hold.
SelectedIds(g, layers) ==
  {id \in CatalogIds(g) :
     \E p \in Positions(g.width, g.height) :
       \/ Includes(layers, "ground") /\ g.ground[p].assetId = id
       \/ Includes(layers, "objects") /\ g.objects[p].assetId = id}

\* C31: renderMap extracts sprites and counts uniqueSpritesUsed only for the
\* tiles on cells of the selected layers of the map it is called with: with
\* only the ground layer selected,
\* an id that occurs only on the object layer is not extracted and not counted,
\* and objectTilesRendered is 0.
C31_ExtractSelectedLayersOnly ==
  last.op = "renderMap" =>
    /\ Range(last.result.calls) = SelectedIds(last.before, last.layers)
    /\ last.result.stats.uniqueSpritesUsed = Cardinality(SelectedIds(last.before, last.layers))
    /\ (~Includes(last.layers, "objects") => last.result.stats.objectTilesRendered = 0)

\* The cells of g inside the footprint of the object placed at p: w x h cells
\* from p to the right and down.
Footprint(g, p) ==
  {q \in Positions(g.width, g.height) :
     /\ q[1] - p[1] \in 0 .. getSprite(g, g.objects[p].assetId).w - 1
     /\ q[2] - p[2] \in 0 .. getSprite(g, g.objects[p].assetId).h - 1}

\* The cells of g that hold an object.
ObjectCells(g) == {p \in Positions(g.width, g.height) : g.objects[p] # NoCell}

\* C32: placeAsset and placeAssets prevent overlapping objects: an object
\* placement whose anchor cell is occupied is rejected and leaves the cell as
\* it was, and after any sequence of placements no cell lies inside the
\* footprints of two different object placements.
C32_NoOverlappingObjects ==
  /\ [][(/\ last'.op = "placeAsset"
         /\ InBounds(grid, last'.x, last'.y)
         /\ getSprite(grid, last'.id) # NoSprite
         /\ TargetLayer(grid, last'.id, last'.layer) = "object"
         /\ grid.objects[<<last'.x, last'.y>>] # NoCell)
        => (~last'.result.success /\ grid' = grid)]_vars
  /\ [](\A p \in ObjectCells(grid), q \in ObjectCells(grid) :
          p # q => Footprint(grid, p) \cap Footprint(grid, q) = {})

\* C34: connectRoads never fragments the network: the island count after a
\* connectRoads call is at most the island count before it, whatever the
\* starting grid and the catalog, even when bridge cells were not resolved.
C34_RepairNeverFragments ==
  last.op = "connectRoads" =>
    last.result.finalIslandCount <= last.result.previousIslandCount

\* Every two 4-adjacent road tiles of g connect toward each other reciprocally:
\* each toward the other, or neither.
Reciprocal(g) ==
  \A p \in RoadSet(g), dir \in Range(DIRECTION_ORDER) :
    NeighborOf(p, dir) \in RoadSet(g) =>
      (dir \in ConnectsSet(g, p) <=> OPPOSITE_DIRECTION(dir) \in ConnectsSet(g, NeighborOf(p, dir)))

\* C35: with a ground road tile in the catalog for each of the 15 non-empty
\* direction sets, an accepted drawRoad call on a grid whose neighbouring road
\* tiles connect reciprocally leaves a grid whose neighbouring road tiles
\* connect reciprocally, and it resolves every route cell (no error entries).
C35_DrawRoadKeepsReciprocity ==
  [][(last'.op = "drawRoad" /\ last'.result.error = "" /\ Reciprocal(grid)) =>
       (/\ Reciprocal(grid')
        /\ Len(last'.result.errors) = 0
        /\ last'.result.success
        /\ last'.result.tilesPlaced = Len(RouteOf(last')))]_vars

\* An accepted drawRoad call wrote a route of two cells or more and upgraded a
\* road that was there before.
C35_Witness ==
  /\ last.op = "drawRoad"
  /\ last.result.error = ""
  /\ last.result.tilesPlaced >= 2
  /\ last.result.tilesUpdated > 0
  /\ Reciprocal(grid)
  /\ RoadSet(grid) \ Range(RouteOf(last)) # {}

\* C36: with a ground road tile in the catalog for each of the 15 non-empty
\* direction sets, one connectRoads call on a grid with two road islands or
\* more ends with a connected road network (validateRoadConnectivity reports
\* one island), although each bridge is computed from the island list taken
\* before any bridge was drawn.
C36_OneRepairConnects ==
  (last.op = "connectRoads" /\ last.result.previousIslandCount >= 2) =>
    /\ NetworkConnected(grid)
    /\ ComponentCount(RoadCells(grid)) = 1
    /\ last.result.success
    /\ last.result.finalIslandCount = 1
    /\ Len(last.result.errors) = 0

\* A connectRoads call on a grid with three islands has returned with every
\* road in one island.
C36_Witness ==
  /\ last.op = "connectRoads"
  /\ last.result.previousIslandCount >= 3
  /\ last.result.tilesPlaced >= 2
  /\ last.result.success
  /\ ComponentCount(RoadCells(grid)) = 1

====
